---- MODULE Spec2Model ----
(***************************************************************************)
(* Model of the metric combination engine of tensorflow_model_analysis:    *)
(* the Beam CombineFns (_WeightedExampleCountCombiner,                     *)
(* _MinLabelPositionCombiner, _CombineEvaluationDictionariesFn,            *)
(* _CompilableMetricsCombiner) driven through the CombineFn protocol       *)
(* (create_accumulator / add_input / merge_accumulators / extract_output), *)
(* the Poisson bootstrap (ComputeWithConfidenceIntervals, _MergeBootstrap) *)
(* the computation graph builder (metric_specs.to_computations,            *)
(* metric_specs.specs_from_metrics, tf_metric_wrapper.tf_metric_computations, *)
(* confusion_matrix_plot) and the batching helpers of model_util           *)
(* (BatchReducibleDoFnWithModels.process, rebatch_by_input_names).         *)
(*                                                                         *)
(* Numbers: example weights, labels and predictions are small naturals;    *)
(* a float quotient is kept as a reduced fraction, NaN as its own value.   *)
(***************************************************************************)
EXTENDS Integers, Sequences, FiniteSets, Bags, TLC

VARIABLES
    combiner,   \* which CombineFn the pipeline stage runs
    config,     \* the combiner's constructor arguments
    accs,       \* the live accumulators, in creation order
    fed,        \* history: bag of the inputs handed to add_input so far
    output,     \* <<>> until extract_output has run, then <<its result>>
    err,        \* "" or the exception that ended the stage
    last        \* history: what the last CombineFn call did

hvars == <<combiner, config, accs, fed, output, err, last>>

VARIABLES
    unsampled_results,  \* side input of _MergeBootstrap: slice key -> metrics dict
    element,            \* <<>> or <<the replica dicts grouped under the slice key>>
    boot_out,           \* <<>> or <<what process yielded for the slice>>
    boot_err,           \* "" or the exception process raised
    boot_merged         \* TRUE when process went past the single-replica return

bvars == <<unsampled_results, element, boot_out, boot_err, boot_merged>>

VARIABLES
    num_bootstrap_samples,    \* argument of ComputeWithConfidenceIntervals, <<>> is None
    random_seed_for_testing,  \* argument of ComputeWithConfidenceIntervals, <<>> is None
    instantiated,             \* compute_per_slice_metrics_cls instances, in creation order
    output_results,           \* which PCollection output_results is bound to
    ci_err,                   \* "" or the exception ComputeWithConfidenceIntervals raised
    ci_pc                     \* position inside ComputeWithConfidenceIntervals

cvars == <<num_bootstrap_samples, random_seed_for_testing, instantiated,
           output_results, ci_err, ci_pc>>

VARIABLES
    build_args,     \* arguments of the graph-builder call under way
    computations,   \* <<>> or <<the computations the call returned>>
    build_err       \* "" or the exception the call raised

gvars == <<build_args, computations, build_err>>

VARIABLES
    proc_args,      \* the batch handed to BatchReducibleDoFnWithModels.process
    proc_result,    \* <<>> or <<the list process returned>>
    proc_err,       \* "" or the exception process raised
    proc_calls      \* history: the batches handed to _batch_reducible_process

pvars == <<proc_args, proc_result, proc_err, proc_calls>>

VARIABLES
    rebatch_args,   \* arguments of the rebatch_by_input_names call under way
    rebatch_inputs, \* <<>> or <<the dict rebatch_by_input_names returned>>
    rebatch_err     \* "" or the exception rebatch_by_input_names raised

rvars == <<rebatch_args, rebatch_inputs, rebatch_err>>

vars == <<combiner, config, accs, fed, output, err, last,
          unsampled_results, element, boot_out, boot_err, boot_merged,
          num_bootstrap_samples, random_seed_for_testing, instantiated,
          output_results, ci_err, ci_pc,
          build_args, computations, build_err,
          proc_args, proc_result, proc_err, proc_calls,
          rebatch_args, rebatch_inputs, rebatch_err>>

----------------------------------------------------------------------------
(* Bounds *)

MaxInputs == 2      \* add_input calls per slice
MaxAccs == 2        \* accumulators alive at once
MaxWeight == 2      \* largest example weight of a weighted-example-count input
MaxQueryLen == 2    \* examples per query group
MaxBatchSize == 2   \* largest desired_batch_size of a compilable-metrics run
MaxReplicas == 3    \* replica result dicts grouped under one slice key
MaxSamples == 2     \* largest num_bootstrap_samples
MaxSeed == 1        \* largest random_seed_for_testing
MaxSpecs == 2       \* metrics specs in one to_computations call
MaxMetrics == 2     \* metrics per output in one tf_metric_computations call

----------------------------------------------------------------------------
(* Float values *)

NaN == [nan |-> TRUE, num |-> 0, den |-> 1]

RECURSIVE GCD(_, _)
GCD(a, b) == IF b = 0 THEN a ELSE GCD(b, a % b)

\* n / d for n >= 0, d > 0, as a reduced fraction
Div(n, d) ==
    LET g == GCD(n, d) IN [nan |-> FALSE, num |-> n \div g, den |-> d \div g]

Num(n) == [nan |-> FALSE, num |-> n, den |-> 1]

----------------------------------------------------------------------------
(* _WeightedExampleCountCombiner *)

\* StandardMetricInputs.example_weight: absent, or an array holding one weight
ExampleWeights ==
    {[kind |-> "none", v |-> 0]} \cup
    {[kind |-> "array", v |-> w] : w \in 0..MaxWeight}

\* a dict-shaped example weight: a weight, or a dict of weights, per name
DictWeight(items) == [kind |-> "dict", v |-> 0, items |-> items]

\* the weight np.array(2.0), the dicts found under a model name
NestedWeights ==
    {[kind |-> "array", v |-> 2]} \cup
    {DictWeight(d) : d \in UNION {[K -> {[kind |-> "array", v |-> 2]}] :
                                     K \in SUBSET {"output", "other"}}}

\* StandardMetricInputs.example_weight of a multi-model or multi-output run
DictExampleWeights ==
    {DictWeight(d) : d \in UNION {[K -> NestedWeights] :
                                     K \in SUBSET {"model", "output", "other"}}}

\* Python truth value of element.example_weight (None, array(0.0) and {} are falsy)
Truthy(example_weight) ==
    CASE example_weight.kind = "array" -> example_weight.v # 0
      [] example_weight.kind = "dict" -> DOMAIN example_weight.items # {}
      [] OTHER -> FALSE

\* util.get_by_keys(data, [key], ...): <<the value under key>>, else default
get_by_keys(data, key, default) ==
    IF key \in DOMAIN data.items THEN <<data.items[key]>> ELSE default

\* the example weight add_input ends up with: defaulted to np.array(1.0), then
\* narrowed by the key's model name and output name
WEC_example_weight(elem) ==
    LET one == [kind |-> "array", v |-> 1]
        example_weight == IF Truthy(elem) THEN elem ELSE one
        by_model ==
            IF example_weight.kind = "dict" /\ config.model_name # ""
               /\ get_by_keys(example_weight, config.model_name, <<>>) # <<>>
            THEN get_by_keys(example_weight, config.model_name, <<>>)[1]
            ELSE example_weight
    IN  IF by_model.kind = "dict" /\ config.output_name # ""
        THEN get_by_keys(by_model, config.output_name, <<one>>)[1]
        ELSE by_model

WEC_create_accumulator == 0

\* add_input that sums whatever the selection left, a dict counting as 1.0
WEC_add_input_unchecked(accumulator, elem) ==
    [raised |-> FALSE,
     acc |-> accumulator + (IF WEC_example_weight(elem).kind = "dict" THEN 1
                            ELSE WEC_example_weight(elem).v)]

WEC_add_input(accumulator, elem) ==
    LET example_weight == WEC_example_weight(elem)
    IN  IF example_weight.kind = "dict"
        THEN [raised |-> TRUE, acc |-> accumulator]
        ELSE [raised |-> FALSE, acc |-> accumulator + example_weight.v]

RECURSIVE WEC_merge_accumulators(_)
WEC_merge_accumulators(accumulators) ==
    IF accumulators = <<>> THEN 0
    ELSE WEC_merge_accumulators(SubSeq(accumulators, 1, Len(accumulators) - 1))
         + accumulators[Len(accumulators)]

WEC_extract_output(accumulator) == Num(accumulator)

----------------------------------------------------------------------------
(* _MinLabelPositionCombiner *)

QueryWeights == {1, 2}

\* one example of a query: (label, example weight) as
\* to_label_prediction_example_weight(..., allow_none=True) yields them;
\* has_label = FALSE is label None
Examples ==
    {[has_label |-> FALSE, label |-> 0, weight |-> w] : w \in QueryWeights} \cup
    {[has_label |-> TRUE, label |-> l, weight |-> w] : l \in {0, 1}, w \in QueryWeights}

\* every list of examples that can be handed to add_input
QueryGroups == UNION {[1..n -> Examples] : n \in 0..MaxQueryLen}

\* the query groups of a well-formed dataset: every example of a query carries
\* the query's weight and a label
ValidQueryGroups ==
    {g \in QueryGroups : \A i \in 1..Len(g) : g[i].has_label /\ g[i].weight = g[1].weight}

MLP_create_accumulator ==
    [total_min_position |-> 0, total_weighted_examples |-> 0]

\* The for loop of add_input from position i on; example_weight is <<>> for None.
\* min_label_pos 0 stands for None (the code tests its truth value).
RECURSIVE MLP_scan(_, _, _)
MLP_scan(elements, i, example_weight) ==
    IF i > Len(elements)
    THEN [raised |-> FALSE, min_label_pos |-> 0, example_weight |-> example_weight]
    ELSE LET weight == elements[i].weight
             ew == IF example_weight = <<>> THEN <<weight>> ELSE example_weight
         IN  IF example_weight # <<>> /\ example_weight[1] # weight
             THEN [raised |-> TRUE, min_label_pos |-> 0, example_weight |-> ew]
             ELSE IF elements[i].has_label /\ elements[i].label > 0
                  THEN [raised |-> FALSE, min_label_pos |-> i, example_weight |-> ew]
                  ELSE MLP_scan(elements, i + 1, ew)

MLP_add_input(accumulator, elements) ==
    LET r == MLP_scan(elements, 1, <<>>)
        example_weight == IF r.example_weight = <<>> THEN 1 ELSE r.example_weight[1]
    IN  IF r.raised THEN [raised |-> TRUE, acc |-> accumulator]
        ELSE IF r.min_label_pos # 0
        THEN [raised |-> FALSE,
              acc |-> [total_min_position |->
                           accumulator.total_min_position + r.min_label_pos,
                       total_weighted_examples |->
                           accumulator.total_weighted_examples + example_weight]]
        ELSE [raised |-> FALSE, acc |-> accumulator]

\* merge_accumulators that assigns total_weighted_examples instead of adding
RECURSIVE MLP_merge_accumulators_assign(_)
MLP_merge_accumulators_assign(accumulators) ==
    IF accumulators = <<>> THEN MLP_create_accumulator
    ELSE LET result == MLP_merge_accumulators_assign(
                           SubSeq(accumulators, 1, Len(accumulators) - 1))
             accumulator == accumulators[Len(accumulators)]
         IN  [total_min_position |->
                  result.total_min_position + accumulator.total_min_position,
              total_weighted_examples |-> accumulator.total_weighted_examples]

RECURSIVE MLP_merge_accumulators(_)
MLP_merge_accumulators(accumulators) ==
    IF accumulators = <<>> THEN MLP_create_accumulator
    ELSE LET result == MLP_merge_accumulators(
                           SubSeq(accumulators, 1, Len(accumulators) - 1))
             accumulator == accumulators[Len(accumulators)]
         IN  [total_min_position |->
                  result.total_min_position + accumulator.total_min_position,
              total_weighted_examples |->
                  result.total_weighted_examples
                  + accumulator.total_weighted_examples]

\* extract_output that yields zero for an empty denominator
MLP_extract_output_zero(accumulator) ==
    IF accumulator.total_weighted_examples > 0
    THEN Div(accumulator.total_min_position, accumulator.total_weighted_examples)
    ELSE Num(0)

MLP_extract_output(accumulator) ==
    IF accumulator.total_weighted_examples > 0
    THEN Div(accumulator.total_min_position, accumulator.total_weighted_examples)
    ELSE NaN

----------------------------------------------------------------------------
(* _CombineEvaluationDictionariesFn *)

EvalKeys == {"k1", "k2", "k3"}
EvalValues == {1, 2}

\* the output dicts evaluators can produce for one slice
OutputDicts == UNION {[K -> EvalValues] : K \in SUBSET EvalKeys}

CED_create_accumulator == <<>>

\* _merge without the intersection test
CED_merge_unchecked(accumulator, output_dict) ==
    [raised |-> FALSE,
     acc |-> [k \in DOMAIN accumulator \cup DOMAIN output_dict |->
                 IF k \in DOMAIN output_dict THEN output_dict[k]
                 ELSE accumulator[k]]]

\* _merge: raises on a shared key, else accumulator.update(output_dict)
CED_merge(accumulator, output_dict) ==
    LET intersection == DOMAIN accumulator \cap DOMAIN output_dict
    IN  IF intersection # {} THEN [raised |-> TRUE, acc |-> accumulator]
        ELSE [raised |-> FALSE,
              acc |-> [k \in DOMAIN accumulator \cup DOMAIN output_dict |->
                          IF k \in DOMAIN output_dict THEN output_dict[k]
                          ELSE accumulator[k]]]

CED_add_input(accumulator, output_dict) == CED_merge(accumulator, output_dict)

RECURSIVE CED_merge_accumulators(_)
CED_merge_accumulators(accumulators) ==
    IF accumulators = <<>> THEN [raised |-> FALSE, acc |-> CED_create_accumulator]
    ELSE LET result == CED_merge_accumulators(
                           SubSeq(accumulators, 1, Len(accumulators) - 1))
         IN  IF result.raised THEN result
             ELSE CED_merge(result.acc, accumulators[Len(accumulators)])

CED_extract_output(accumulator) == accumulator

----------------------------------------------------------------------------
(* _CompilableMetricsCombiner *)

\* (label, prediction, example_weight) as to_label_prediction_example_weight
\* yields them for an output
Triples == [label : {0, 1}, prediction : {0, 2}, example_weight : {0, 1}]

\* config.output_names, config.n_metrics (len of each metric_configs entry),
\* config.n_losses (len of each loss_configs entry), config.batch_size
DEFAULT_BATCH_SIZE == 1000

\* eval_config of tf_metric_computations: None (<<>>), or its options with
\* desired_batch_size unset (<<>>) or set
EvalConfigs ==
    {<<>>} \cup {<<[desired_batch_size |-> b]>> :
                    b \in {<<>>} \cup {<<n>> : n \in 1..MaxBatchSize}}

\* the batch size tf_metric_computations hands to the combiner
desired_batch_size(eval_config) ==
    IF eval_config # <<>> /\ eval_config[1].desired_batch_size # <<>>
    THEN eval_config[1].desired_batch_size[1]
    ELSE DEFAULT_BATCH_SIZE

CompilableConfigs ==
    {[dataset |-> "valid", output_names |-> o, n_metrics |-> m, n_losses |-> l,
      batch_size |-> b] :
        o \in {<<"">>, <<"a", "b">>}, m \in {0, 1}, l \in {0, 1},
        b \in {desired_batch_size(e) : e \in EvalConfigs}}

NumOutputs == Len(config.output_names)

\* len(self._metrics[output_name]): the deserialized metrics, then one
\* _LossMetric per loss
NumSlots == config.n_metrics + config.n_losses

\* the name of the metric in slot m
SlotName(m) == IF m <= config.n_metrics THEN "mse" ELSE "mae"

\* the value whose weighted mean the metric in slot m keeps for one example:
\* MeanSquaredError for a metric config, _LossMetric(MeanAbsoluteError) for a loss
SlotValue(m, t) ==
    LET d == IF t.label >= t.prediction THEN t.label - t.prediction
             ELSE t.prediction - t.label
    IN  IF m <= config.n_metrics THEN d * d ELSE d

\* metric.reset_states(); metric.update_state(*inputs); metric.get_weights():
\* (total, count) of a Mean over the batch
RECURSIVE BatchWeights(_, _)
BatchWeights(m, inputs) ==
    IF inputs = <<>> THEN <<0, 0>>
    ELSE LET rest == BatchWeights(m, Tail(inputs))
             t == Head(inputs)
         IN  <<rest[1] + t.example_weight * SlotValue(m, t),
               rest[2] + t.example_weight>>

\* _CompilableMetricsAccumulator.add_weights; <<>> is None
add_weights(cur_weights, weights) ==
    IF cur_weights = <<>> THEN weights
    ELSE <<cur_weights[1] + weights[1], cur_weights[2] + weights[2]>>

len_inputs(accumulator) == Len(accumulator.inputs[1])

CM_create_accumulator ==
    [inputs |-> [o \in 1..NumOutputs |-> <<>>],
     weights |-> [o \in 1..NumOutputs |-> [m \in 1..NumSlots |-> <<>>]]]

CM_process_batch(accumulator) ==
    IF len_inputs(accumulator) = 0 THEN accumulator
    ELSE [inputs |-> [o \in 1..NumOutputs |-> <<>>],
          weights |-> [o \in 1..NumOutputs |-> [m \in 1..NumSlots |->
                          add_weights(accumulator.weights[o][m],
                                      BatchWeights(m, accumulator.inputs[o]))]]]

\* add_input that flushes only once the buffer has grown past the batch size
CM_add_input_late(accumulator, elem) ==
    LET added == [accumulator EXCEPT
                      !.inputs = [o \in 1..NumOutputs |->
                                     Append(accumulator.inputs[o], elem)]]
    IN  [raised |-> FALSE,
         acc |-> IF len_inputs(added) > config.batch_size
                 THEN CM_process_batch(added) ELSE added]

CM_add_input(accumulator, elem) ==
    LET added == [accumulator EXCEPT
                      !.inputs = [o \in 1..NumOutputs |->
                                     Append(accumulator.inputs[o], elem)]]
    IN  [raised |-> FALSE,
         acc |-> IF len_inputs(added) >= config.batch_size
                 THEN CM_process_batch(added) ELSE added]

\* the metric slots merge_accumulators visits for an output:
\* range(len(self._metric_configs[output_index]))
MergedSlots == 1..config.n_metrics

RECURSIVE CM_merge_accumulators(_)
CM_merge_accumulators(accumulators) ==
    IF accumulators = <<>> THEN CM_create_accumulator
    ELSE LET result == CM_merge_accumulators(
                           SubSeq(accumulators, 1, Len(accumulators) - 1))
             accumulator == CM_process_batch(accumulators[Len(accumulators)])
         IN  [result EXCEPT
                  !.weights = [o \in 1..NumOutputs |-> [m \in 1..NumSlots |->
                      IF m \in MergedSlots /\ accumulator.weights[o][m] # <<>>
                      THEN add_weights(result.weights[o][m],
                                       accumulator.weights[o][m])
                      ELSE result.weights[o][m]]]]

\* tf.keras.metrics.Mean.result(): div_no_nan(total, count)
MeanResult(weights) ==
    IF weights[2] = 0 THEN Num(0) ELSE Div(weights[1], weights[2])

MetricKeys ==
    {[name |-> SlotName(m), output_name |-> config.output_names[o]] :
        o \in 1..NumOutputs, m \in 1..NumSlots}

CM_extract_output(accumulator) ==
    LET processed == CM_process_batch(accumulator)
        value(o, m) == IF processed.weights[o][m] # <<>>
                       THEN MeanResult(processed.weights[o][m])
                       ELSE MeanResult(<<0, 0>>)
    IN  [key \in MetricKeys |->
            LET o == CHOOSE i \in 1..NumOutputs :
                         config.output_names[i] = key.output_name
                m == CHOOSE i \in 1..NumSlots : SlotName(i) = key.name
            IN  value(o, m)]

----------------------------------------------------------------------------
(* The CombineFn protocol *)

Combiners == {"WeightedExampleCount", "MinLabelPosition"}

\* what one add_input call may receive; config.dataset = "any" lifts the
\* restriction to well-formed query groups
Inputs(c) ==
    CASE c = "WeightedExampleCount" ->
           IF config.dataset = "any" THEN ExampleWeights \cup DictExampleWeights
           ELSE ExampleWeights
      [] c = "MinLabelPosition" ->
           IF config.dataset = "any" THEN QueryGroups ELSE ValidQueryGroups
      [] c = "CombineEvaluationDictionaries" -> OutputDicts
      [] c = "CompilableMetrics" -> Triples

\* add_input calls made for the slice
NumInputs == IF config.dataset = "any" THEN 1 ELSE MaxInputs

create_accumulator(c) ==
    CASE c = "WeightedExampleCount" -> WEC_create_accumulator
      [] c = "MinLabelPosition" -> MLP_create_accumulator
      [] c = "CombineEvaluationDictionaries" -> CED_create_accumulator
      [] c = "CompilableMetrics" -> CM_create_accumulator

add_input(c, accumulator, x) ==
    CASE c = "WeightedExampleCount" -> WEC_add_input(accumulator, x)
      [] c = "MinLabelPosition" -> MLP_add_input(accumulator, x)
      [] c = "CombineEvaluationDictionaries" -> CED_add_input(accumulator, x)
      [] c = "CompilableMetrics" -> CM_add_input(accumulator, x)

merge_accumulators(c, accumulators) ==
    CASE c = "WeightedExampleCount" ->
           [raised |-> FALSE, acc |-> WEC_merge_accumulators(accumulators)]
      [] c = "MinLabelPosition" ->
           [raised |-> FALSE, acc |-> MLP_merge_accumulators(accumulators)]
      [] c = "CombineEvaluationDictionaries" -> CED_merge_accumulators(accumulators)
      [] c = "CompilableMetrics" ->
           [raised |-> FALSE, acc |-> CM_merge_accumulators(accumulators)]

extract_output(c, accumulator) ==
    CASE c = "WeightedExampleCount" -> WEC_extract_output(accumulator)
      [] c = "MinLabelPosition" -> MLP_extract_output(accumulator)
      [] c = "CombineEvaluationDictionaries" -> CED_extract_output(accumulator)
      [] c = "CompilableMetrics" -> CM_extract_output(accumulator)

NoCall == [op |-> "none", raised |-> FALSE, changed |-> FALSE, n |-> 0]

\* the orders in which a set of accumulators can be listed
Orders(S) ==
    {p \in [1..Cardinality(S) -> S] : \A i, j \in 1..Cardinality(S) : p[i] = p[j] => i = j}

\* acc list with the positions in S removed
Remaining(S) == SelectSeq([i \in 1..Len(accs) |-> <<i, accs[i]>>],
                          LAMBDA e : e[1] \notin S)

Running == err = "" /\ output = <<>>

CreateAccumulator ==
    /\ Running
    /\ Len(accs) < MaxAccs
    /\ accs' = Append(accs, create_accumulator(combiner))
    /\ last' = [NoCall EXCEPT !.op = "create_accumulator"]
    /\ UNCHANGED <<combiner, config, fed, output, err>>

AddInput ==
    /\ Running
    /\ BagCardinality(fed) < NumInputs
    /\ \E i \in 1..Len(accs), x \in Inputs(combiner) :
          LET r == add_input(combiner, accs[i], x)
          IN  /\ accs' = [accs EXCEPT ![i] = r.acc]
              /\ err' = IF r.raised THEN "ValueError" ELSE ""
              /\ fed' = fed (+) SetToBag({x})
              /\ last' = [op |-> "add_input", raised |-> r.raised,
                          changed |-> r.acc # accs[i], n |-> 1]
    /\ UNCHANGED <<combiner, config, output>>

MergeAccumulators ==
    /\ Running
    /\ \E S \in SUBSET (1..Len(accs)) : \E p \in Orders(S) :
          LET r == merge_accumulators(combiner,
                                      [k \in 1..Cardinality(S) |-> accs[p[k]]])
          IN  /\ S # {}
              /\ accs' = IF r.raised THEN accs
                         ELSE Append([k \in 1..Len(Remaining(S)) |->
                                         Remaining(S)[k][2]], r.acc)
              /\ err' = IF r.raised THEN "ValueError" ELSE ""
              /\ last' = [NoCall EXCEPT !.op = "merge_accumulators",
                                        !.raised = r.raised,
                                        !.n = Cardinality(S)]
    /\ UNCHANGED <<combiner, config, fed, output>>

ExtractOutput ==
    /\ Running
    /\ Len(accs) = 1
    /\ output' = <<extract_output(combiner, accs[1])>>
    /\ last' = [NoCall EXCEPT !.op = "extract_output"]
    /\ UNCHANGED <<combiner, config, accs, fed, err>>

----------------------------------------------------------------------------
(* _MergeBootstrap *)

SliceKey == "slice"
MetricNames == {"a", "b"}

\* scalar metric values of a sampled run, of the unsampled run
SampledValues == {NaN, Num(0), Num(1)}
UnsampledValues == {NaN, Num(1)}

MetricsDicts(V) == UNION {[K -> V] : K \in SUBSET MetricNames}

RECURSIVE SeqSum(_)
SeqSum(q) == IF q = <<>> THEN 0 ELSE Head(q) + SeqSum(Tail(q))

\* np.mean of a non-empty list of numbers
Mean(data) == Div(SeqSum([i \in 1..Len(data) |-> data[i].num]), Len(data))

\* np.std(data, ddof=1), kept as its square, the sample variance
\* (n * sum(x^2) - sum(x)^2) / (n * (n - 1)); NaN for a single sample
StdDdof1(data) ==
    LET n == Len(data)
        s1 == SeqSum([i \in 1..n |-> data[i].num])
        s2 == SeqSum([i \in 1..n |-> data[i].num * data[i].num])
    IN  IF n = 1 THEN NaN ELSE Div(n * s2 - s1 * s1, n * (n - 1))

ValueWithTDistribution(mean, std, dof, unsampled) ==
    [sample_mean |-> mean, sample_standard_deviation |-> std,
     degrees_of_freedom |-> dof, unsampled_value |-> unsampled]

\* _calculate_t_distribution that keeps the NaN samples
calculate_t_distribution_keep_nan(sampling_data_list, unsampled_data) ==
    LET n_samples == Len(sampling_data_list)
    IN  IF \E i \in 1..n_samples : ~sampling_data_list[i].nan
        THEN ValueWithTDistribution(Mean(sampling_data_list),
                                    StdDdof1(sampling_data_list),
                                    n_samples - 1, unsampled_data)
        ELSE ValueWithTDistribution(NaN, NaN, -1, NaN)

\* the scalar branch of _calculate_t_distribution
calculate_t_distribution(sampling_data_list, unsampled_data) ==
    LET numeric == SelectSeq(sampling_data_list, LAMBDA data : ~data.nan)
        n_samples == Len(numeric)
    IN  IF n_samples # 0
        THEN ValueWithTDistribution(Mean(numeric), StdDdof1(numeric),
                                    n_samples - 1, unsampled_data)
        ELSE ValueWithTDistribution(NaN, NaN, -1, NaN)

\* metrics_dict: for each metric name of some replica, the values the replicas
\* that have it give, in replica order
GroupMetrics(metrics) ==
    [name \in UNION {DOMAIN metrics[i] : i \in 1..Len(metrics)} |->
        LET having == SelectSeq([i \in 1..Len(metrics) |-> i],
                                LAMBDA i : name \in DOMAIN metrics[i])
        IN  [k \in 1..Len(having) |-> metrics[having[k]][name]]]

\* unsampled_results.get(slice_key, {})
UnsampledMetricsDict(slice_key) ==
    IF slice_key \in DOMAIN unsampled_results THEN unsampled_results[slice_key]
    ELSE <<>>

\* the key sets process compares before it merges
KeysMatch(metrics_dict, unsampled_metrics_dict) ==
    DOMAIN metrics_dict = DOMAIN unsampled_metrics_dict

Process ==
    /\ element = <<>>
    /\ \E n \in 1..MaxReplicas : \E metrics \in [1..n -> MetricsDicts(SampledValues)] :
          LET metrics_dict == GroupMetrics(metrics)
              unsampled_metrics_dict == UnsampledMetricsDict(SliceKey)
          IN  /\ element' = <<metrics>>
              /\ IF Len(metrics) = 1
                 THEN /\ boot_out' = <<metrics[1]>>
                      /\ boot_err' = ""
                      /\ boot_merged' = FALSE
                 ELSE IF ~KeysMatch(metrics_dict, unsampled_metrics_dict)
                 THEN /\ boot_out' = <<>>
                      /\ boot_err' = "ValueError"
                      /\ boot_merged' = FALSE
                 ELSE /\ boot_out' =
                           <<[name \in DOMAIN metrics_dict |->
                                 calculate_t_distribution(
                                     metrics_dict[name],
                                     unsampled_metrics_dict[name])]>>
                      /\ boot_err' = ""
                      /\ boot_merged' = TRUE
    /\ UNCHANGED unsampled_results

RebatchIdle ==
    /\ rebatch_args = <<>>
    /\ rebatch_inputs = <<>>
    /\ rebatch_err = ""

ProcessIdle ==
    /\ proc_args = <<>>
    /\ proc_result = <<>>
    /\ proc_err = ""
    /\ proc_calls = <<>>

BootIdle ==
    /\ unsampled_results = <<>>
    /\ element = <<>>
    /\ boot_out = <<>>
    /\ boot_err = ""
    /\ boot_merged = FALSE

ConfidenceIdle ==
    /\ num_bootstrap_samples = <<>>
    /\ random_seed_for_testing = <<>>
    /\ instantiated = <<>>
    /\ output_results = "none"
    /\ ci_err = ""
    /\ ci_pc = "idle"

BuilderIdle ==
    /\ build_args = <<>>
    /\ computations = <<>>
    /\ build_err = ""

HarnessIdle ==
    /\ combiner = "none"
    /\ config = [dataset |-> "valid"]
    /\ accs = <<>>
    /\ fed = EmptyBag
    /\ output = <<>>
    /\ err = ""
    /\ last = NoCall

InitBootstrap ==
    /\ unsampled_results \in
           {<<>>} \cup {[k \in {SliceKey} |-> d] : d \in MetricsDicts(UnsampledValues)}
    /\ element = <<>>
    /\ boot_out = <<>>
    /\ boot_err = ""
    /\ boot_merged = FALSE
    /\ HarnessIdle
    /\ ConfidenceIdle
    /\ BuilderIdle
    /\ ProcessIdle
    /\ RebatchIdle

NextBootstrap == Process /\ UNCHANGED <<hvars, cvars, gvars, pvars, rvars>>

SpecBootstrap == InitBootstrap /\ [][NextBootstrap]_vars

----------------------------------------------------------------------------
(* ComputeWithConfidenceIntervals *)

\* num_bootstrap_samples as a caller may pass it: None, or an integer
BootstrapSampleCounts == {<<>>} \cup {<<n>> : n \in -1..MaxSamples}

\* random_seed_for_testing as a caller may pass it: None, or a base seed
TestingSeeds == {<<>>} \cup {<<s>> : s \in 0..MaxSeed}

\* `if not num_bootstrap_samples: num_bootstrap_samples = 1`
DefaultedSamples(num) == IF num = <<>> \/ num[1] = 0 THEN 1 ELSE num[1]

\* the condition under which the sampled computations and the merge are built,
\* without the test of the sample count
NeedsBootstrap_always(num) == num >= 1

\* `if num_bootstrap_samples > 1`
NeedsBootstrap(num) == num > 1

\* every replica given the base seed itself
ReplicaSeed_shared(seed, i) == seed

\* seed of replica i: None without a base seed, else base seed + i
ReplicaSeed(seed, i) == IF seed = <<>> THEN <<>> ELSE <<seed[1] + i>>

\* one instantiation of compute_per_slice_metrics_cls
Instance(sampling, seed) ==
    [compute_with_sampling |-> sampling, random_seed_for_testing |-> seed]

\* the sampled instantiations made so far: the list multicombine
Multicombine == SelectSeq(instantiated, LAMBDA c : c.compute_with_sampling)

\* lines 65-70: default the sample count, reject a count below one
CI_Validate ==
    /\ ci_pc = "start"
    /\ LET num == DefaultedSamples(num_bootstrap_samples)
       IN  IF num < 1
           THEN /\ ci_err' = "ValueError"
                /\ ci_pc' = "raised"
                /\ UNCHANGED num_bootstrap_samples
           ELSE /\ num_bootstrap_samples' = <<num>>
                /\ ci_pc' = "unsampled"
                /\ UNCHANGED ci_err
    /\ UNCHANGED <<random_seed_for_testing, instantiated, output_results>>
    /\ UNCHANGED <<hvars, bvars, gvars, pvars, rvars>>

\* lines 72-75: the unsampled computation
CI_ComputeUnsampled ==
    /\ ci_pc = "unsampled"
    /\ instantiated' = Append(instantiated, Instance(FALSE, <<>>))
    /\ output_results' = "unsampled"
    /\ ci_pc' = IF NeedsBootstrap(num_bootstrap_samples[1]) THEN "sampled" ELSE "done"
    /\ UNCHANGED <<num_bootstrap_samples, random_seed_for_testing, ci_err>>
    /\ UNCHANGED <<hvars, bvars, gvars, pvars, rvars>>

\* lines 79-87: one turn of the loop over range(num_bootstrap_samples)
CI_ComputeSampled ==
    /\ ci_pc = "sampled"
    /\ LET i == Len(Multicombine)
       IN  /\ instantiated' =
                Append(instantiated,
                       Instance(TRUE, ReplicaSeed(random_seed_for_testing, i)))
           /\ ci_pc' = IF i + 1 < num_bootstrap_samples[1] THEN "sampled" ELSE "merge"
    /\ UNCHANGED <<num_bootstrap_samples, random_seed_for_testing, output_results, ci_err>>
    /\ UNCHANGED <<hvars, bvars, gvars, pvars, rvars>>

\* lines 88-93: the replicas' results flattened, grouped by slice and merged
\* by _MergeBootstrap with the unsampled results as side input
CI_MergeBootstrap ==
    /\ ci_pc = "merge"
    /\ Process
    /\ Len(element'[1]) \in 1..Len(Multicombine)
    /\ output_results' = "merged"
    /\ ci_err' = boot_err'
    /\ ci_pc' = IF boot_err' = "" THEN "done" ELSE "raised"
    /\ UNCHANGED <<num_bootstrap_samples, random_seed_for_testing, instantiated>>
    /\ UNCHANGED <<hvars, gvars, pvars, rvars>>

\* what the returned PCollection holds for the slice: <<>> or <<metrics dict>>
SliceOutput ==
    CASE output_results = "unsampled" /\ ci_pc = "done" ->
           IF SliceKey \in DOMAIN unsampled_results
           THEN <<unsampled_results[SliceKey]>> ELSE <<>>
      [] output_results = "merged" /\ ci_pc = "done" -> boot_out
      [] OTHER -> <<>>

InitConfidence ==
    /\ num_bootstrap_samples \in BootstrapSampleCounts
    /\ random_seed_for_testing \in TestingSeeds
    /\ instantiated = <<>>
    /\ output_results = "none"
    /\ ci_err = ""
    /\ ci_pc = "start"
    /\ unsampled_results \in
           {<<>>} \cup {[k \in {SliceKey} |-> d] : d \in MetricsDicts(UnsampledValues)}
    /\ element = <<>>
    /\ boot_out = <<>>
    /\ boot_err = ""
    /\ boot_merged = FALSE
    /\ HarnessIdle
    /\ BuilderIdle
    /\ ProcessIdle
    /\ RebatchIdle

NextConfidence ==
    \/ CI_Validate
    \/ CI_ComputeUnsampled
    \/ CI_ComputeSampled
    \/ CI_MergeBootstrap

SpecConfidence == InitConfidence /\ [][NextConfidence]_vars

----------------------------------------------------------------------------
(* Metric keys, TF metric instances *)

\* An Optional value is <<>> for None and <<v>> for v.
\* metric_types.SubKey; the Python value None is the sub key with none set
NoSubKey == [none |-> TRUE, class_id |-> <<>>, k |-> <<>>, top_k |-> <<>>]

SubKey(class_id, k, top_k) ==
    [none |-> FALSE, class_id |-> class_id, k |-> k, top_k |-> top_k]

MetricKey(name, model_name, output_name, sub_key) ==
    [name |-> name, model_name |-> model_name, output_name |-> output_name,
     sub_key |-> sub_key]

\* _DEFAULT_NUM_THRESHOLDS_IN_KERAS and binary_confusion_matrices.DEFAULT_NUM_THRESHOLDS
DEFAULT_NUM_THRESHOLDS_IN_KERAS == 200
DEFAULT_NUM_THRESHOLDS == 1000

BINARY_CONFUSION_MATRICES_NAME == "binary_confusion_matrices"

\* a tf.keras metric or loss object, by the attributes the wrapper reads;
\* thresholds are in hundredths
TFMetric(cls, name, thresholds, num_thresholds, label_weights, multi_label, class_id) ==
    [cls |-> cls, name |-> name, thresholds |-> thresholds,
     num_thresholds |-> num_thresholds, label_weights |-> label_weights,
     multi_label |-> multi_label, class_id |-> class_id, top_k |-> <<>>]

AUC200 == TFMetric("AUC", "auc", <<>>, <<DEFAULT_NUM_THRESHOLDS_IN_KERAS>>, <<>>, FALSE, <<>>)
AUC3 == TFMetric("AUC", "auc3", <<<<0, 50, 100>>>>, <<3>>, <<>>, FALSE, <<>>)
AUCLabelWeights ==
    TFMetric("AUC", "auc_lw", <<>>, <<DEFAULT_NUM_THRESHOLDS_IN_KERAS>>, <<<<1, 2>>>>, FALSE, <<>>)
AUCMultiLabel ==
    TFMetric("AUC", "auc_ml", <<>>, <<DEFAULT_NUM_THRESHOLDS_IN_KERAS>>, <<>>, TRUE, <<>>)
Precision50 == TFMetric("Precision", "precision", <<<<50>>>>, <<>>, <<>>, FALSE, <<>>)
Recall50 == TFMetric("Recall", "recall", <<<<50>>>>, <<>>, <<>>, FALSE, <<>>)
RecallClass0 == TFMetric("Recall", "recall_0", <<<<50>>>>, <<>>, <<>>, FALSE, <<0>>)
SparseCategoricalAccuracy ==
    TFMetric("SparseCategoricalAccuracy", "sparse_categorical_accuracy",
             <<>>, <<>>, <<>>, FALSE, <<>>)
MeanSquaredError == TFMetric("MeanSquaredError", "mse", <<>>, <<>>, <<>>, FALSE, <<>>)
BinaryCrossentropyLoss ==
    TFMetric("BinaryCrossentropy", "binary_crossentropy", <<>>, <<>>, <<>>, FALSE, <<>>)

\* a user-defined tf.keras.metrics.Metric subclass with a class_id attribute
CustomMetricClass0 == TFMetric("CustomMetric", "custom_0", <<>>, <<>>, <<>>, FALSE, <<0>>)

TFMetrics ==
    {AUC200, AUC3, AUCLabelWeights, AUCMultiLabel, Precision50, Recall50,
     RecallClass0, SparseCategoricalAccuracy, MeanSquaredError, BinaryCrossentropyLoss,
     CustomMetricClass0}

ConfusionMatrixClasses == {"AUC", "Precision", "Recall"}
LossClasses == {"BinaryCrossentropy"}

\* class weights as tf_metric_computations receives them: None, or a dict
\* given as its set of (class id, weight) items
ClassWeights == {<<>>, <<{}>>, <<{<<0, 1>>}>>}

SubKeys == {NoSubKey, SubKey(<<0>>, <<>>, <<>>), SubKey(<<1>>, <<>>, <<>>)}

\* the result of a call: the exception raised ("" if none) and the value returned
Raise(e) == [err |-> e, computations |-> <<>>]
Return(c) == [err |-> "", computations |-> c]

RECURSIVE Flatten(_)
Flatten(lists) ==
    IF lists = <<>> THEN <<>> ELSE Head(lists) \o Flatten(Tail(lists))

\* the elements of a list without the repeats, in order of first appearance:
\* the key order of a dict filled from the list
RECURSIVE Distinct(_)
Distinct(list) ==
    IF list = <<>> THEN <<>>
    ELSE LET init == Distinct(SubSeq(list, 1, Len(list) - 1))
             x == list[Len(list)]
         IN  IF \E i \in 1..Len(init) : init[i] = x THEN init ELSE Append(init, x)

\* the first exception of a list of results, "" if none raised
RECURSIVE FirstErr(_)
FirstErr(results) ==
    IF results = <<>> THEN ""
    ELSE IF Head(results).err # "" THEN Head(results).err
    ELSE FirstErr(Tail(results))

----------------------------------------------------------------------------
(* tf_metric_wrapper.tf_metric_computations *)

\* Python truth value of an Optional list, of an Optional dict
TruthyList(o) == o # <<>> /\ o[1] # <<>>
TruthyDict(o) == o # <<>> /\ o[1] # {}

\* metrics is a dict, kept as its list of (output name, metrics list) items
\* the entries a filter fills: outputs without a kept metric get no entry
FilterMetrics(metrics, classes) ==
    SelectSeq([o \in 1..Len(metrics) |->
                  <<metrics[o][1],
                    SelectSeq(metrics[o][2], LAMBDA m : m.cls \in classes)>>],
              LAMBDA entry : entry[2] # <<>>)

SparseClasses == {"SparseCategoricalAccuracy"}

IsSparse(m) == m.cls \in SparseClasses

\* a sparse metrics filter that finds none
sparse_metrics_none(metrics) == <<>>

sparse_metrics(metrics) == FilterMetrics(metrics, SparseClasses)

IsConfusionMatrixMetric(m) == m.cls \in ConfusionMatrixClasses

\* the classes of the metrics and losses at hand
MetricClasses == {m.cls : m \in TFMetrics}

separate_confusion_matrix_metrics(metrics) ==
    <<FilterMetrics(metrics, ConfusionMatrixClasses),
      FilterMetrics(metrics, MetricClasses \ ConfusionMatrixClasses)>>

verify_and_update_sub_key(model_name, output_name, sub_key, metric) ==
    IF metric.class_id # <<>>
    THEN IF ~sub_key.none /\ sub_key.class_id # metric.class_id
         THEN [err |-> "ValueError", sub_key |-> sub_key]
         ELSE [err |-> "", sub_key |-> SubKey(metric.class_id, <<>>, <<>>)]
    ELSE IF metric.top_k # <<>>
    THEN IF ~sub_key.none /\ sub_key.top_k # metric.top_k
         THEN [err |-> "ValueError", sub_key |-> sub_key]
         ELSE [err |-> "", sub_key |-> SubKey(<<>>, <<>>, metric.top_k)]
    ELSE [err |-> "", sub_key |-> sub_key]

\* binary_confusion_matrices.binary_confusion_matrices: the histogram the
\* matrices are derived from, then the matrices computation under the key `name`
binary_confusion_matrices(num_thresholds, thresholds, name, model_name, output_name, sub_key, class_weights) ==
    << [kind |-> "histogram", model_name |-> model_name,
        output_name |-> output_name, sub_key |-> sub_key,
        class_weights |-> class_weights],
       [kind |-> "matrices",
        keys |-> <<MetricKey(name, model_name, output_name, sub_key)>>,
        num_thresholds |-> num_thresholds, thresholds |-> thresholds,
        class_weights |-> class_weights] >>

\* tf.keras.metrics.serialize(metric)['config'] has a num_thresholds entry
ConfigHasNumThresholds(metric) == metric.num_thresholds # <<>>

\* whether the keras default number of thresholds is replaced (lines 411-413)
UsesDefaultThresholds(metric) ==
    /\ metric.num_thresholds = <<DEFAULT_NUM_THRESHOLDS_IN_KERAS>>
    /\ ConfigHasNumThresholds(metric)

\* name of the confusion matrices computation a metric reads
MatricesName(metric) ==
    IF UsesDefaultThresholds(metric) THEN <<BINARY_CONFUSION_MATRICES_NAME>>
    ELSE <<"_", metric.name, BINARY_CONFUSION_MATRICES_NAME>>

\* the (num_thresholds, thresholds) pair handed to binary_confusion_matrices
MatricesThresholds(metric) ==
    LET num_thresholds == IF UsesDefaultThresholds(metric)
                          THEN <<DEFAULT_NUM_THRESHOLDS>> ELSE metric.num_thresholds
        thresholds == IF UsesDefaultThresholds(metric) THEN <<>> ELSE metric.thresholds
    IN  <<IF thresholds # <<>> /\ num_thresholds # <<>> THEN <<>> ELSE num_thresholds,
          thresholds>>

\* _wrap_confusion_matrix_metric without the test of class_weights against
\* the label_weights of an AUC metric
wrap_confusion_matrix_metric_unchecked(metric, model_name, output_name, sub_key, class_weights) ==
    Return(binary_confusion_matrices(
               MatricesThresholds(metric)[1], MatricesThresholds(metric)[2],
               MatricesName(metric), model_name, output_name, sub_key,
               class_weights))

wrap_confusion_matrix_metric(metric, model_name, output_name, sub_key, class_weights) ==
    LET has_label_weights == metric.cls = "AUC" /\ TruthyList(metric.label_weights)
        weights == IF has_label_weights
                   THEN <<{<<i - 1, metric.label_weights[1][i]>> :
                              i \in 1..Len(metric.label_weights[1])}>>
                   ELSE class_weights
        verified == verify_and_update_sub_key(model_name, output_name, sub_key, metric)
        key == MetricKey(metric.name, model_name, output_name, verified.sub_key)
        matrices == binary_confusion_matrices(
                        MatricesThresholds(metric)[1], MatricesThresholds(metric)[2],
                        MatricesName(metric), model_name, output_name,
                        verified.sub_key, weights)
        derived == [kind |-> "derived", keys |-> <<key>>,
                    class_name |-> metric.cls,
                    matrices_key |-> matrices[Len(matrices)].keys[1]]
    IN  IF has_label_weights /\ TruthyDict(class_weights) THEN Raise("ValueError")
        ELSE IF metric.cls = "AUC" /\ metric.multi_label
        THEN Raise("NotImplementedError")
        ELSE IF verified.err # "" THEN Raise(verified.err)
        ELSE Return(Append(matrices, derived))

CONFUSION_MATRIX_PLOT_NAME == "confusion_matrix_plot"

MaxPlotThresholds == 2

PlotKey(name, model_name, output_name, sub_key) ==
    [plot |-> TRUE, name |-> name, model_name |-> model_name,
     output_name |-> output_name, sub_key |-> sub_key]

\* [-1e-6] + [i * 1.0 / num_thresholds for i in range(0, num_thresholds + 1)]
PlotThresholds(num_thresholds) ==
    <<[nan |-> FALSE, num |-> -1, den |-> 1000000]>>
    \o [i \in 1..(num_thresholds + 1) |-> Div(i - 1, num_thresholds)]

\* _confusion_matrix_plot with the derived computation put first
confusion_matrix_plot_first(num_thresholds, name, model_name, output_name, sub_key, class_weights) ==
    LET matrices_computations ==
            binary_confusion_matrices(<<>>, <<PlotThresholds(num_thresholds)>>,
                                      <<BINARY_CONFUSION_MATRICES_NAME>>, model_name,
                                      output_name, sub_key, class_weights)
    IN  Return(<<[kind |-> "derived",
                  keys |-> <<PlotKey(name, model_name, output_name, sub_key)>>,
                  class_name |-> "ConfusionMatrixPlot",
                  matrices_key |-> matrices_computations[2].keys[1]]>>
               \o matrices_computations)

confusion_matrix_plot(num_thresholds, name, model_name, output_name, sub_key, class_weights) ==
    LET key == PlotKey(name, model_name, output_name, sub_key)
        thresholds == PlotThresholds(num_thresholds)
        matrices_computations ==
            binary_confusion_matrices(<<>>, <<thresholds>>,
                                      <<BINARY_CONFUSION_MATRICES_NAME>>, model_name,
                                      output_name, sub_key, class_weights)
        matrices_key ==
            matrices_computations[Len(matrices_computations)].keys[
                Len(matrices_computations[Len(matrices_computations)].keys)]
        derived_computation == [kind |-> "derived", keys |-> <<key>>,
                                class_name |-> "ConfusionMatrixPlot",
                                matrices_key |-> matrices_key]
    IN  Return(Append(matrices_computations, derived_computation))

\* _metric_keys_and_configs: the keys of the metrics of every output, with the
\* sub key each metric leaves for the next one
RECURSIVE metric_keys(_, _, _)
metric_keys(pairs, model_name, sub_key) ==
    IF pairs = <<>> THEN [err |-> "", keys |-> <<>>]
    ELSE LET verified == verify_and_update_sub_key(model_name, Head(pairs)[1],
                                                   sub_key, Head(pairs)[2])
             rest == metric_keys(Tail(pairs), model_name, verified.sub_key)
         IN  IF verified.err # "" THEN [err |-> verified.err, keys |-> <<>>]
             ELSE IF rest.err # "" THEN rest
             ELSE [err |-> "",
                   keys |-> <<MetricKey(Head(pairs)[2].name, model_name,
                                        Head(pairs)[1], verified.sub_key)>>
                            \o rest.keys]

\* the (output name, metric) pairs of a metrics dict, in iteration order
MetricPairs(metrics) ==
    Flatten([o \in 1..Len(metrics) |->
                [i \in 1..Len(metrics[o][2]) |-> <<metrics[o][1], metrics[o][2][i]>>]])

\* the serialized configs kept per output: every output stays, with an empty
\* list if need be
ConfigsOf(metrics, classes) ==
    [o \in 1..Len(metrics) |->
        <<metrics[o][1],
          LET kept == SelectSeq(metrics[o][2], LAMBDA m : m.cls \in classes)
          IN  [i \in 1..Len(kept) |->
                  [class_name |-> kept[i].cls, name |-> kept[i].name]]>>]

\* _metric_keys_and_configs: the keys, the metric configs and the loss configs
metric_keys_and_configs(metrics, model_name, sub_key) ==
    LET keyed == metric_keys(MetricPairs(metrics), model_name, sub_key)
    IN  IF keyed.err # "" THEN Raise(keyed.err)
        ELSE Return([keys |-> keyed.keys,
                     metric_configs |-> ConfigsOf(metrics, MetricClasses \ LossClasses),
                     loss_configs |-> ConfigsOf(metrics, LossClasses)])

\* the keys of the dict _CompilableMetricsCombiner.extract_output returns for
\* the combiner of a compilable computation: one per output and per metric
\* of self._metrics[output_name] (the deserialized metric configs, then a
\* _LossMetric named after each loss)
extract_output_keys(computation) ==
    LET metrics(o) == computation.metric_configs[o][2] \o computation.loss_configs[o][2]
    IN  UNION {{MetricKey(metrics(o)[i].name, "", computation.metric_configs[o][1],
                          computation.sub_key) : i \in 1..Len(metrics(o))} :
                  o \in 1..Len(computation.metric_configs)}

\* tf_metric_computations for metrics given as a dict, without a model loader
tf_metric_computations(metrics, model_name, sub_key, class_weights) ==
    LET separated == separate_confusion_matrix_metrics(metrics)
        confusion_pairs == MetricPairs(separated[1])
        wrapped == [i \in 1..Len(confusion_pairs) |->
                       wrap_confusion_matrix_metric(confusion_pairs[i][2], model_name,
                                                    confusion_pairs[i][1], sub_key,
                                                    class_weights)]
        keyed == metric_keys(MetricPairs(separated[2]), model_name, sub_key)
        compiled == [kind |-> "compilable", keys |-> keyed.keys,
                     metric_configs |-> ConfigsOf(separated[2], MetricClasses \ LossClasses),
                     loss_configs |-> ConfigsOf(separated[2], LossClasses),
                     sub_key |-> sub_key, class_weights |-> class_weights]
    IN  IF class_weights # <<>> /\ sparse_metrics(metrics) # <<>>
        THEN Raise("ValueError")
        ELSE IF FirstErr(wrapped) # "" THEN Raise(FirstErr(wrapped))
        ELSE IF separated[2] = <<>>
        THEN Return(Flatten([i \in 1..Len(wrapped) |-> wrapped[i].computations]))
        ELSE IF keyed.err # "" THEN Raise(keyed.err)
        ELSE Return(Append(Flatten([i \in 1..Len(wrapped) |-> wrapped[i].computations]),
                           compiled))

----------------------------------------------------------------------------
(* metric_specs.to_computations *)

\* the binarize field of a MetricsSpec: unset, or its three lists
Binarizations ==
    {<<>>} \cup
    {<<[class_ids |-> c, k_list |-> k, top_k_list |-> t]>> :
        c \in {<<>>, <<0>>, <<0, 1>>}, k \in {<<>>, <<1>>}, t \in {<<>>, <<2>>}}

\* the aggregate field of a MetricsSpec: unset, or one kind of averaging (or
\* none) with its class_weights
Aggregations ==
    {<<>>} \cup
    {<<[micro_average |-> kind = "micro", macro_average |-> kind = "macro",
        weighted_macro_average |-> kind = "weighted_macro", class_weights |-> w]>> :
        kind \in {"", "micro", "macro", "weighted_macro"}, w \in {{}, {<<0, 1>>}}}

MetricsSpec(metrics, model_names, output_names, binarize, aggregate) ==
    [metrics |-> metrics, model_names |-> model_names, output_names |-> output_names,
     binarize |-> binarize, aggregate |-> aggregate]

\* spec.aggregate.<flag>: False when the aggregate field is unset
AggregateFlag(spec, flag) ==
    spec.aggregate # <<>> /\
    CASE flag = "micro_average" -> spec.aggregate[1].micro_average
      [] flag = "macro_average" -> spec.aggregate[1].macro_average
      [] flag = "weighted_macro_average" -> spec.aggregate[1].weighted_macro_average

\* _create_sub_keys that adds no entry for micro averaging
create_sub_keys_no_micro(spec) ==
    IF spec.binarize = <<>> THEN <<>>
    ELSE <<[i \in 1..Len(spec.binarize[1].class_ids) |->
               SubKey(<<spec.binarize[1].class_ids[i]>>, <<>>, <<>>)]
           \o [i \in 1..Len(spec.binarize[1].k_list) |->
                  SubKey(<<>>, <<spec.binarize[1].k_list[i]>>, <<>>)]
           \o [i \in 1..Len(spec.binarize[1].top_k_list) |->
                  SubKey(<<>>, <<>>, <<spec.binarize[1].top_k_list[i]>>)]>>

\* _create_sub_keys: <<>> for None, else <<the list of sub keys>>
create_sub_keys(spec) ==
    IF spec.binarize = <<>> THEN <<>>
    ELSE LET binarize == spec.binarize[1]
             class_ids == [i \in 1..Len(binarize.class_ids) |->
                              SubKey(<<binarize.class_ids[i]>>, <<>>, <<>>)]
             ks == [i \in 1..Len(binarize.k_list) |->
                       SubKey(<<>>, <<binarize.k_list[i]>>, <<>>)]
             top_ks == [i \in 1..Len(binarize.top_k_list) |->
                           SubKey(<<>>, <<>>, <<binarize.top_k_list[i]>>)]
             sub_keys == class_ids \o ks \o top_ks
         IN  IF AggregateFlag(spec, "micro_average")
             THEN <<Append(sub_keys, NoSubKey)>>
             ELSE <<sub_keys>>

\* class names registered as TFMA metrics; every other class is a tf.keras one
TFMAMetricClasses == {"WeightedExampleCount"}

IsTFMAClass(class_name) == class_name \in TFMAMetricClasses
IsTFClass(class_name) == class_name \notin TFMAMetricClasses

\* _deserialize_tf_metric: the tf.keras metric of a class with its default config
deserialize_tf_metric(class_name) ==
    CASE class_name = "Precision" -> Precision50
      [] class_name = "AUC" -> AUC200
      [] class_name = "SparseCategoricalAccuracy" -> SparseCategoricalAccuracy
      [] OTHER -> MeanSquaredError

\* `names or ['']`
OrDefault(names) == IF names = <<>> THEN <<"">> ELSE names

\* spec.aggregate.class_weights as passed on: None unless the field is set
SpecClassWeights(spec) ==
    IF spec.aggregate = <<>> THEN <<>> ELSE <<spec.aggregate[1].class_weights>>

\* metrics_specs restricted to the TF metrics, the specs without one dropped
tf_metrics_specs(metrics_specs) ==
    SelectSeq([i \in 1..Len(metrics_specs) |->
                  [metrics_specs[i] EXCEPT
                      !.metrics = SelectSeq(metrics_specs[i].metrics, IsTFClass)]],
              LAMBDA spec : spec.metrics # <<>>)

tfma_metrics_specs(metrics_specs) ==
    SelectSeq([i \in 1..Len(metrics_specs) |->
                  [metrics_specs[i] EXCEPT
                      !.metrics = SelectSeq(metrics_specs[i].metrics, IsTFMAClass)]],
              LAMBDA spec : spec.metrics # <<>>)

\* the sub keys a TF spec is grouped under: [None] when _create_sub_keys gives
\* None or an empty list
GroupingSubKeys(spec) ==
    IF create_sub_keys(spec) = <<>> \/ create_sub_keys(spec)[1] = <<>>
    THEN <<NoSubKey>> ELSE create_sub_keys(spec)[1]

\* every (sub key, model name, spec index) the grouping loop visits, in order
GroupingEntries(tf_specs) ==
    Flatten([i \in 1..Len(tf_specs) |->
        Flatten([k \in 1..Len(GroupingSubKeys(tf_specs[i])) |->
            [m \in 1..Len(OrDefault(tf_specs[i].model_names)) |->
                [sub_key |-> GroupingSubKeys(tf_specs[i])[k],
                 model_name |-> OrDefault(tf_specs[i].model_names)[m],
                 index |-> i]]])])

\* tf_spec_indices_by_subkey as the list of its (sub key, model name, indices)
\* groups, in the order the dicts were filled
TFGroups(tf_specs) ==
    LET entries == GroupingEntries(tf_specs)
        sub_keys == Distinct([e \in 1..Len(entries) |-> entries[e].sub_key])
        under(sub_key) == SelectSeq(entries, LAMBDA e : e.sub_key = sub_key)
        models(sub_key) ==
            Distinct([e \in 1..Len(under(sub_key)) |-> under(sub_key)[e].model_name])
        indices(sub_key, model_name) ==
            LET of == SelectSeq(under(sub_key), LAMBDA e : e.model_name = model_name)
            IN  [e \in 1..Len(of) |-> of[e].index]
    IN  Flatten([k \in 1..Len(sub_keys) |->
            [m \in 1..Len(models(sub_keys[k])) |->
                [sub_key |-> sub_keys[k],
                 model_name |-> models(sub_keys[k])[m],
                 indices |-> indices(sub_keys[k], models(sub_keys[k])[m])]]])

\* metrics_by_output of a group: for every output name of its specs the metric
\* instances of the specs that name it, in order
MetricsByOutput(tf_specs, indices) ==
    LET visits == Flatten([n \in 1..Len(indices) |->
                      [o \in 1..Len(OrDefault(tf_specs[indices[n]].output_names)) |->
                          <<OrDefault(tf_specs[indices[n]].output_names)[o], indices[n]>>]])
        outputs == Distinct([v \in 1..Len(visits) |-> visits[v][1]])
        instances(i) == [j \in 1..Len(tf_specs[i].metrics) |->
                            deserialize_tf_metric(tf_specs[i].metrics[j])]
    IN  [o \in 1..Len(outputs) |->
            <<outputs[o],
              Flatten([v \in 1..Len(visits) |->
                          IF visits[v][1] = outputs[o] THEN instances(visits[v][2])
                          ELSE <<>>])>>]

\* the class_weights of the tf_metric_computations call made for one group:
\* those of tf_metrics_specs[i], i being where the loop over the group's
\* indices ended
GroupClassWeights(tf_specs, group) ==
    SpecClassWeights(tf_specs[group.indices[Len(group.indices)]])

\* the tf_metric_computations call made for one group
GroupComputations(tf_specs, group) ==
    tf_metric_computations(
        MetricsByOutput(tf_specs, group.indices), group.model_name, group.sub_key,
        GroupClassWeights(tf_specs, group))

\* weighted_example_count._weighted_example_count
weighted_example_count(name, model_names, output_names) ==
    Flatten([m \in 1..Len(model_names) |->
        [o \in 1..Len(output_names) |->
            [kind |-> "combiner", combiner |-> "WeightedExampleCount",
             keys |-> <<MetricKey(name, model_names[m], output_names[o], NoSubKey)>>]]])

\* the computations of the TFMA metrics: per distinct metric config, per spec using it
TFMAComputations(tfma_specs) ==
    LET uses == Flatten([i \in 1..Len(tfma_specs) |->
                    [j \in 1..Len(tfma_specs[i].metrics) |->
                        <<tfma_specs[i].metrics[j], i>>]])
        configs == Distinct([u \in 1..Len(uses) |-> uses[u][1]])
    IN  Flatten([c \in 1..Len(configs) |->
            Flatten([u \in 1..Len(uses) |->
                IF uses[u][1] # configs[c] THEN <<>>
                ELSE weighted_example_count(
                         "weighted_example_count",
                         OrDefault(tfma_specs[uses[u][2]].model_names),
                         OrDefault(tfma_specs[uses[u][2]].output_names))])])

\* aggregation.macro_average / aggregation.weighted_macro_average
macro_average(kind, metric_name, model_name, output_name, sub_keys, class_weights) ==
    <<[kind |-> kind,
       keys |-> <<MetricKey(metric_name, model_name, output_name, NoSubKey)>>,
       sub_keys |-> sub_keys, class_weights |-> class_weights]>>

\* the metric names of a spec, TF metrics first: per_spec_metric_instances
SpecMetricNames(spec) ==
    LET tf == SelectSeq(spec.metrics, IsTFClass)
        tfma == SelectSeq(spec.metrics, IsTFMAClass)
    IN  [j \in 1..Len(tf) |-> deserialize_tf_metric(tf[j]).name]
        \o [j \in 1..Len(tfma) |-> "weighted_example_count"]

WantsMacro(spec) ==
    AggregateFlag(spec, "macro_average") \/ AggregateFlag(spec, "weighted_macro_average")

\* the macro averaging loop without the test for binarize settings
MacroComputations_unchecked(spec) == Return(<<>>)

\* the macro averaging computations of one spec
MacroComputations(spec) ==
    IF ~WantsMacro(spec) THEN Return(<<>>)
    ELSE IF create_sub_keys(spec) = <<>> THEN Raise("ValueError")
    ELSE Return(
        Flatten([m \in 1..Len(OrDefault(spec.model_names)) |->
            Flatten([o \in 1..Len(OrDefault(spec.output_names)) |->
                Flatten([j \in 1..Len(SpecMetricNames(spec)) |->
                    macro_average(
                        IF AggregateFlag(spec, "macro_average")
                        THEN "macro_average" ELSE "weighted_macro_average",
                        SpecMetricNames(spec)[j],
                        OrDefault(spec.model_names)[m],
                        OrDefault(spec.output_names)[o],
                        create_sub_keys(spec)[1],
                        spec.aggregate[1].class_weights)])])]))

to_computations(metrics_specs) ==
    LET tf_specs == tf_metrics_specs(metrics_specs)
        groups == TFGroups(tf_specs)
        tf == [g \in 1..Len(groups) |-> GroupComputations(tf_specs, groups[g])]
        tfma == TFMAComputations(tfma_metrics_specs(metrics_specs))
        macro == [i \in 1..Len(metrics_specs) |-> MacroComputations(metrics_specs[i])]
    IN  IF FirstErr(tf) # "" THEN Raise(FirstErr(tf))
        ELSE IF FirstErr(macro) # "" THEN Raise(FirstErr(macro))
        ELSE Return(Flatten([g \in 1..Len(tf) |-> tf[g].computations])
                    \o tfma
                    \o Flatten([i \in 1..Len(macro) |-> macro[i].computations]))

----------------------------------------------------------------------------
(* metric_specs.specs_from_metrics *)

\* config.MetricsSpec with its query_key field; an argument left out is unset
QueryMetricsSpec(metrics, model_names, output_names, binarize, aggregate, query_key) ==
    [metrics |-> metrics, model_names |-> model_names, output_names |-> output_names,
     binarize |-> binarize, aggregate |-> aggregate, query_key |-> query_key]

\* _serialize_tf_metric: the MetricConfig of a metric, kept by its class name
serialize_tf_metric(metric) == metric.cls

\* example_count_specs
example_count_specs(model_names, output_names, include_example_count, include_weighted_example_count) ==
    (IF include_example_count
     THEN <<QueryMetricsSpec(<<"ExampleCount">>, <<>>, <<>>, <<>>, <<>>, <<>>)>>
     ELSE <<>>)
    \o (IF include_weighted_example_count
        THEN <<QueryMetricsSpec(<<"WeightedExampleCount">>, model_names, output_names,
                                <<>>, <<>>, <<>>)>>
        ELSE <<>>)

\* specs_from_metrics for metrics given as a list: the example count specs,
\* then one spec with the serialized metrics; a flag that is None counts as True
specs_from_list(metrics, model_names, output_names, binarize, aggregate, query_key, include_example_count, include_weighted_example_count) ==
    Append(example_count_specs(
               model_names, output_names,
               include_example_count = <<>> \/ include_example_count[1],
               include_weighted_example_count = <<>> \/ include_weighted_example_count[1]),
           QueryMetricsSpec([i \in 1..Len(metrics) |-> serialize_tf_metric(metrics[i])],
                            model_names, output_names, binarize, aggregate, query_key))

\* the place of an output name in sorted(metrics.keys())
OutputRank(output_name) ==
    CASE output_name = "o1" -> 1
      [] output_name = "o2" -> 2
      [] OTHER -> 0

\* sorted(metrics.keys()) of a dict given as its (output name, metrics) items
SortedOutputs(items) ==
    LET names == {items[i][1] : i \in 1..Len(items)}
        below(n) == Cardinality({x \in names : OutputRank(x) < OutputRank(n)})
    IN  [r \in 1..Cardinality(names) |-> CHOOSE n \in names : below(n) = r - 1]

\* metrics[output_name] of a dict given as its items
ItemOf(items, output_name) ==
    items[CHOOSE i \in 1..Len(items) : items[i][1] = output_name][2]

\* specs_from_metrics(**a): for a dict, one call per output name in sorted
\* order, with the arguments the recursive call names (query_key is not one
\* of them) and include_example_count False after the first output
specs_from_metrics(a) ==
    IF a.metrics.kind = "dict" /\ a.output_names # <<>> THEN Raise("ValueError")
    ELSE IF a.metrics.kind = "dict"
    THEN LET outputs == SortedOutputs(a.metrics.items)
         IN  Return(Flatten([o \in 1..Len(outputs) |->
                 specs_from_list(ItemOf(a.metrics.items, outputs[o]), a.model_names,
                                 <<outputs[o]>>, a.binarize, a.aggregate, <<>>,
                                 IF o = 1 THEN a.include_example_count ELSE <<FALSE>>,
                                 a.include_weighted_example_count)]))
    ELSE Return(specs_from_list(a.metrics.items, a.model_names, a.output_names,
                                a.binarize, a.aggregate, a.query_key,
                                a.include_example_count,
                                a.include_weighted_example_count))

----------------------------------------------------------------------------
(* Calls into the computation graph builder *)

\* the lists of length 1..n over a set
ListsUpTo(S, n) == UNION {[1..len -> S] : len \in 1..n}

\* the metrics specs handed to to_computations
BuilderSpecs ==
    {MetricsSpec(metrics, model_names, <<>>, binarize, aggregate) :
        metrics \in {<<"Precision">>, <<"MeanSquaredError", "WeightedExampleCount">>},
        model_names \in {<<>>, <<"candidate">>},
        binarize \in {b \in Binarizations :
                         b = <<>> \/ (b[1].class_ids = <<0>> /\ b[1].k_list = <<>>
                                      /\ b[1].top_k_list = <<>>)},
        aggregate \in {a \in Aggregations :
                          a = <<>> \/ (a[1].class_weights = {} /\ ~a[1].micro_average
                                       /\ (a[1].macro_average \/ a[1].weighted_macro_average))
                                   \/ a[1].micro_average}}

ToComputationsCalls ==
    {[call |-> "to_computations", metrics_specs |-> specs] :
        specs \in ListsUpTo(BuilderSpecs, MaxSpecs)}

CreateSubKeysCalls ==
    {[call |-> "_create_sub_keys",
      spec |-> MetricsSpec(<<"Precision">>, <<>>, <<>>, binarize, aggregate)] :
        binarize \in Binarizations, aggregate \in Aggregations}

TFMetricComputationsCalls ==
    {[call |-> "tf_metric_computations",
      metrics |-> [o \in 1..Len(output_names) |-> <<output_names[o], metrics>>],
      model_name |-> model_name, sub_key |-> sub_key, class_weights |-> class_weights] :
        output_names \in {<<"">>, <<"o1", "o2">>},
        metrics \in ListsUpTo(TFMetrics, MaxMetrics),
        model_name \in {"", "candidate"},
        sub_key \in SubKeys, class_weights \in ClassWeights}

MetricKeysCalls ==
    {[call |-> "_metric_keys_and_configs",
      metrics |-> [o \in 1..Len(output_names) |-> <<output_names[o], metrics>>],
      model_name |-> "", sub_key |-> sub_key] :
        output_names \in {<<"">>, <<"o1", "o2">>},
        metrics \in ListsUpTo({m \in TFMetrics : ~IsConfusionMatrixMetric(m)}, MaxMetrics),
        sub_key \in SubKeys}

WrapCalls ==
    {[call |-> "_wrap_confusion_matrix_metric", metric |-> metric,
      model_name |-> "", output_name |-> "", sub_key |-> sub_key,
      class_weights |-> class_weights] :
        metric \in {m \in TFMetrics : IsConfusionMatrixMetric(m)},
        sub_key \in SubKeys, class_weights \in ClassWeights}

PlotCalls ==
    {[call |-> "_confusion_matrix_plot", num_thresholds |-> num_thresholds,
      name |-> CONFUSION_MATRIX_PLOT_NAME, model_name |-> model_name,
      output_name |-> "", sub_key |-> sub_key, class_weights |-> class_weights] :
        num_thresholds \in 1..MaxPlotThresholds, model_name \in {"", "candidate"},
        sub_key \in SubKeys, class_weights \in ClassWeights}

\* the metric lists a caller hands to specs_from_metrics
CallerMetrics == {<<Precision50>>, <<MeanSquaredError, AUC200>>}

SpecsFromMetricsCalls ==
    {[call |-> "specs_from_metrics", metrics |-> metrics, model_names |-> <<>>,
      output_names |-> output_names, binarize |-> <<>>, aggregate |-> aggregate,
      query_key |-> query_key, include_example_count |-> iec,
      include_weighted_example_count |-> iwec] :
        metrics \in {[kind |-> "list", items |-> l] : l \in CallerMetrics}
                    \cup {[kind |-> "dict", items |-> <<<<o[1], l[1]>>, <<o[2], l[2]>>>>] :
                              o \in {<<"o1", "o2">>, <<"o2", "o1">>},
                              l \in [1..2 -> CallerMetrics]}
                    \cup {[kind |-> "dict", items |-> <<<<"o1", l>>>>] : l \in CallerMetrics},
        output_names \in {<<>>, <<"o1">>},
        aggregate \in {<<>>} \cup {a \in Aggregations : a # <<>> /\ a[1].micro_average
                                                       /\ a[1].class_weights = {}},
        query_key \in {<<>>, <<"query_id">>},
        iec \in {<<>>, <<TRUE>>, <<FALSE>>}, iwec \in {<<>>, <<TRUE>>, <<FALSE>>}}

\* the call has returned or raised
Called == computations # <<>> \/ build_err # ""

\* the call returns r.computations or raises r.err
Finish(r) ==
    /\ build_err' = r.err
    /\ computations' = IF r.err = "" THEN <<r.computations>> ELSE <<>>
    /\ UNCHANGED build_args
    /\ UNCHANGED <<hvars, bvars, cvars, pvars, rvars>>

ToComputations ==
    /\ build_args.call = "to_computations" /\ ~Called
    /\ Finish(to_computations(build_args.metrics_specs))

CreateSubKeys ==
    /\ build_args.call = "_create_sub_keys" /\ ~Called
    /\ Finish(Return(create_sub_keys(build_args.spec)))

TFMetricComputations ==
    /\ build_args.call = "tf_metric_computations" /\ ~Called
    /\ Finish(tf_metric_computations(build_args.metrics, build_args.model_name,
                                     build_args.sub_key, build_args.class_weights))

WrapConfusionMatrixMetric ==
    /\ build_args.call = "_wrap_confusion_matrix_metric" /\ ~Called
    /\ Finish(wrap_confusion_matrix_metric(
                  build_args.metric, build_args.model_name, build_args.output_name,
                  build_args.sub_key, build_args.class_weights))

ConfusionMatrixPlot ==
    /\ build_args.call = "_confusion_matrix_plot" /\ ~Called
    /\ Finish(confusion_matrix_plot(
                  build_args.num_thresholds, build_args.name, build_args.model_name,
                  build_args.output_name, build_args.sub_key, build_args.class_weights))

MetricKeysAndConfigs ==
    /\ build_args.call = "_metric_keys_and_configs" /\ ~Called
    /\ Finish(metric_keys_and_configs(build_args.metrics, build_args.model_name,
                                      build_args.sub_key))

SpecsFromMetrics ==
    /\ build_args.call = "specs_from_metrics" /\ ~Called
    /\ Finish(specs_from_metrics(build_args))

InitBuilder ==
    /\ build_args \in ToComputationsCalls \cup CreateSubKeysCalls
                      \cup TFMetricComputationsCalls \cup WrapCalls \cup PlotCalls
                      \cup MetricKeysCalls \cup SpecsFromMetricsCalls
    /\ computations = <<>>
    /\ build_err = ""
    /\ HarnessIdle
    /\ BootIdle
    /\ ConfidenceIdle
    /\ ProcessIdle
    /\ RebatchIdle

NextBuilder ==
    \/ ToComputations
    \/ CreateSubKeys
    \/ TFMetricComputations
    \/ WrapConfusionMatrixMetric
    \/ ConfusionMatrixPlot
    \/ MetricKeysAndConfigs
    \/ SpecsFromMetrics

SpecBuilder == InitBuilder /\ [][NextBuilder]_vars

----------------------------------------------------------------------------
(* model_util.BatchReducibleDoFnWithModels: batch processing with a serial *)
(* fallback at batch size 1                                                *)

MaxElements == 3

\* how a call of _batch_reducible_process can end: it returns, or raises one
\* of the two caught exception types, or raises anything else
ProcessOutcomes == {"ok", "ValueError", "InvalidArgumentError", "RuntimeError"}

\* the batches handed to process: element i is identified by its position and
\* carries how the subclass's _batch_reducible_process ends when the element
\* is processed alone
ElementBatches ==
    UNION {{[i \in 1..n |-> [id |-> i, alone |-> alone[i]]] :
               alone \in [1..n -> ProcessOutcomes]} : n \in 1..MaxElements}

\* the calls of process: the batch, and how _batch_reducible_process ends on
\* a batch of more than one element
ProcessCalls ==
    {[elements |-> elements, whole |-> whole] :
        elements \in ElementBatches, whole \in ProcessOutcomes}

\* the subclass's _batch_reducible_process on a batch: one output per
\* element, tagged with the size of the batch it was computed in
batch_reducible_process(elements, whole) ==
    LET outcome == IF Len(elements) = 1 THEN elements[1].alone ELSE whole
    IN  IF outcome = "ok"
        THEN Return([i \in 1..Len(elements) |->
                        [element |-> elements[i].id, batch_size |-> Len(elements)]])
        ELSE Raise(outcome)

\* the except clause of process retries on every exception type
CaughtAll == ProcessOutcomes \ {"ok"}

\* the exception types the except clause of process catches
Caught == {"ValueError", "InvalidArgumentError"}

\* the for loop of the except clause from element i on: result.extend of
\* each element processed alone; an exception ends the loop and propagates
RECURSIVE process_serially(_, _, _, _)
process_serially(elements, whole, i, result) ==
    IF i > Len(elements) THEN Return(result)
    ELSE LET r == batch_reducible_process(<<elements[i]>>, whole)
         IN  IF r.err # "" THEN r
             ELSE process_serially(elements, whole, i + 1, result \o r.computations)

\* process: the whole batch first, then serially when a caught exception
\* was raised
process(elements, whole) ==
    LET r == batch_reducible_process(elements, whole)
    IN  IF r.err \in Caught THEN process_serially(elements, whole, 1, <<>>)
        ELSE r

\* history: the batches process hands to _batch_reducible_process, in order
RECURSIVE serial_calls(_, _)
serial_calls(elements, i) ==
    IF i > Len(elements) THEN <<>>
    ELSE IF elements[i].alone # "ok" THEN <<(<<elements[i]>>)>>
    ELSE <<(<<elements[i]>>)>> \o serial_calls(elements, i + 1)

process_calls(elements, whole) ==
    IF batch_reducible_process(elements, whole).err \in Caught
    THEN <<elements>> \o serial_calls(elements, 1)
    ELSE <<elements>>

Processed == proc_result # <<>> \/ proc_err # ""

ProcessBatch ==
    /\ proc_args # <<>> /\ ~Processed
    /\ LET r == process(proc_args.elements, proc_args.whole)
       IN  /\ proc_err' = r.err
           /\ proc_result' = IF r.err = "" THEN <<r.computations>> ELSE <<>>
    /\ proc_calls' = process_calls(proc_args.elements, proc_args.whole)
    /\ UNCHANGED proc_args
    /\ UNCHANGED <<hvars, bvars, cvars, gvars, rvars>>

InitProcess ==
    /\ proc_args \in ProcessCalls
    /\ proc_result = <<>>
    /\ proc_err = ""
    /\ proc_calls = <<>>
    /\ HarnessIdle
    /\ BootIdle
    /\ ConfidenceIdle
    /\ BuilderIdle
    /\ RebatchIdle

NextProcess == ProcessBatch

SpecProcess == InitProcess /\ [][NextProcess]_vars

----------------------------------------------------------------------------
(* model_util.rebatch_by_input_names                                       *)

MaxExtracts == 2

KERAS_INPUT_SUFFIX == "_input"

\* names are kept as token lists so that a suffix can be tested and cut:
\* <<"a">> is 'a', <<"a", "_input">> is 'a_input'
FeatureNames == {<<"a">>, <<"b">>}
InputNameLists ==
    {<<(<<"a">>)>>, <<(<<"a">>), (<<"b">>)>>, <<(<<"b">>), (<<"a">>)>>,
     <<(<<"a", KERAS_INPUT_SUFFIX>>)>>}

\* name.endswith(KERAS_INPUT_SUFFIX)
endswith(name, suffix) == Len(name) > 1 /\ name[Len(name)] = suffix

\* name[:-len(KERAS_INPUT_SUFFIX)]
strip(name) == SubSeq(name, 1, Len(name) - 1)

\* feature values: np.array of one or of two numbers
FeatureValues == {<<1>>, <<2>>, <<1, 2>>}

\* what is found under the features key or the input key: a dict of features,
\* or a single input that is not a dict (a serialized example)
FeatureDicts ==
    {[kind |-> "dict", items |-> d] :
        d \in UNION {[K -> FeatureValues] : K \in SUBSET FeatureNames}}
RawInput == [kind |-> "raw", items |-> <<>>]

\* an extract: features is <<>> when the features key is absent, and then
\* the input key holds the features
Extracts ==
    {[features |-> <<f>>, input |-> RawInput] : f \in FeatureDicts} \cup
    {[features |-> <<>>, input |-> f] : f \in FeatureDicts \cup {RawInput}}

\* input_specs: None, or the type spec of 'a' with a shape of the batch
\* dimension only
InputSpecs == {<<>>, <<[n \in {<<"a">>} |-> [shape |-> <<0>>]]>>}

RebatchCalls ==
    {[batch_of_extracts |-> b, input_names |-> n, input_specs |-> s] :
        b \in ListsUpTo(Extracts, MaxExtracts), n \in InputNameLists,
        s \in InputSpecs}

\* inputs[name].append(v) on the defaultdict(list) inputs
append(d, name, v) ==
    [n \in DOMAIN d \cup {name} |->
        IF n = name THEN Append(IF n \in DOMAIN d THEN d[n] ELSE <<>>, v) ELSE d[n]]

\* the features of an extract: under the features key if present, else
\* under the input key
input_features(extract) ==
    IF extract.features # <<>> THEN extract.features[1] ELSE extract.input

\* the value found for name in a dict of features: <<>> is None
lookup(features, name) ==
    IF name \in DOMAIN features.items THEN <<features.items[name]>>
    ELSE IF endswith(name, KERAS_INPUT_SUFFIX) /\ strip(name) \in DOMAIN features.items
    THEN <<features.items[strip(name)]>>
    ELSE <<>>

\* the body of the inner loop for one name and one extract; st is
\* [err, inputs] so far
rebatch_one(st, name, extract, input_specs) ==
    LET features == input_features(extract)
        value == lookup(features, name)
        specs == IF input_specs = <<>> THEN <<>> ELSE input_specs[1]
    IN  IF st.err # "" THEN st
        ELSE IF features.kind = "dict"
        THEN IF value = <<>> THEN st
             ELSE IF name \in DOMAIN specs /\ Len(specs[name].shape) = 1
             THEN IF Len(value[1]) # 1 THEN [st EXCEPT !.err = "ValueError"]
                  ELSE [st EXCEPT !.inputs = append(st.inputs, name, value[1][1])]
             ELSE [st EXCEPT !.inputs = append(st.inputs, name, value[1])]
        ELSE IF DOMAIN st.inputs # {} THEN [st EXCEPT !.err = "ValueError"]
             ELSE [st EXCEPT !.inputs = append(st.inputs, name, features)]

\* the two nested loops from (name i, extract j) on
RECURSIVE rebatch_from(_, _, _, _)
rebatch_from(args, i, j, st) ==
    IF i > Len(args.input_names) THEN st
    ELSE IF j > Len(args.batch_of_extracts) THEN rebatch_from(args, i + 1, 1, st)
    ELSE rebatch_from(args, i, j + 1,
                      rebatch_one(st, args.input_names[i], args.batch_of_extracts[j],
                                  args.input_specs))

rebatch_by_input_names(args) ==
    rebatch_from(args, 1, 1, [err |-> "", inputs |-> <<>>])

Rebatched == rebatch_inputs # <<>> \/ rebatch_err # ""

RebatchByInputNames ==
    /\ rebatch_args # <<>> /\ ~Rebatched
    /\ LET r == rebatch_by_input_names(rebatch_args)
       IN  /\ rebatch_err' = r.err
           /\ rebatch_inputs' = IF r.err = "" THEN <<r.inputs>> ELSE <<>>
    /\ UNCHANGED rebatch_args
    /\ UNCHANGED <<hvars, bvars, cvars, gvars, pvars>>

InitRebatch ==
    /\ rebatch_args \in RebatchCalls
    /\ rebatch_inputs = <<>>
    /\ rebatch_err = ""
    /\ HarnessIdle
    /\ BootIdle
    /\ ConfidenceIdle
    /\ BuilderIdle
    /\ ProcessIdle

NextRebatch == RebatchByInputNames

SpecRebatch == InitRebatch /\ [][NextRebatch]_vars

----------------------------------------------------------------------------
(* Specifications of the CombineFn runs *)

Init ==
    /\ combiner \in Combiners
    /\ config = [dataset |-> "valid"]
    /\ accs = <<>>
    /\ fed = EmptyBag
    /\ output = <<>>
    /\ err = ""
    /\ last = NoCall
    /\ BootIdle
    /\ ConfidenceIdle
    /\ BuilderIdle
    /\ ProcessIdle
    /\ RebatchIdle

Next ==
    \/ CreateAccumulator /\ UNCHANGED <<bvars, cvars, gvars, pvars, rvars>>
    \/ AddInput /\ UNCHANGED <<bvars, cvars, gvars, pvars, rvars>>
    \/ MergeAccumulators /\ UNCHANGED <<bvars, cvars, gvars, pvars, rvars>>
    \/ ExtractOutput /\ UNCHANGED <<bvars, cvars, gvars, pvars, rvars>>

Spec == Init /\ [][Next]_vars

\* one add_input call of _MinLabelPositionCombiner on an arbitrary list of
\* examples, added to an accumulator that may already hold queries
InitQuery ==
    /\ combiner = "MinLabelPosition"
    /\ config = [dataset |-> "any"]
    /\ accs \in {<<>>} \cup
                {<<[total_min_position |-> p, total_weighted_examples |-> w]>> :
                     p \in 0..MaxQueryLen, w \in {0} \cup QueryWeights}
    /\ fed = EmptyBag
    /\ output = <<>>
    /\ err = ""
    /\ last = NoCall
    /\ BootIdle
    /\ ConfidenceIdle
    /\ BuilderIdle
    /\ ProcessIdle
    /\ RebatchIdle

SpecQuery == InitQuery /\ [][Next]_vars

\* one add_input call of _WeightedExampleCountCombiner, for each kind of metric
\* key, on an example weight that may be a dict
InitWeights ==
    /\ combiner = "WeightedExampleCount"
    /\ config \in {[dataset |-> "any", model_name |-> m, output_name |-> o] :
                      m \in {"", "model"}, o \in {"", "output"}}
    /\ accs \in {<<>>, <<MaxWeight>>}
    /\ fed = EmptyBag
    /\ output = <<>>
    /\ err = ""
    /\ last = NoCall
    /\ BootIdle
    /\ ConfidenceIdle
    /\ BuilderIdle
    /\ ProcessIdle
    /\ RebatchIdle

SpecWeights == InitWeights /\ [][Next]_vars

\* _CombineEvaluationDictionariesFn over the output dicts of several evaluators
InitDicts ==
    /\ combiner = "CombineEvaluationDictionaries"
    /\ config = [dataset |-> "valid"]
    /\ accs = <<>>
    /\ fed = EmptyBag
    /\ output = <<>>
    /\ err = ""
    /\ last = NoCall
    /\ BootIdle
    /\ ConfidenceIdle
    /\ BuilderIdle
    /\ ProcessIdle
    /\ RebatchIdle

SpecDicts == InitDicts /\ [][Next]_vars

\* _CompilableMetricsCombiner for one of the combiner configurations
InitCompilable ==
    /\ combiner = "CompilableMetrics"
    /\ config \in {c \in CompilableConfigs : c.n_metrics + c.n_losses > 0}
    /\ accs = <<>>
    /\ fed = EmptyBag
    /\ output = <<>>
    /\ err = ""
    /\ last = NoCall
    /\ BootIdle
    /\ ConfidenceIdle
    /\ BuilderIdle
    /\ ProcessIdle
    /\ RebatchIdle

SpecCompilable == InitCompilable /\ [][Next]_vars

----------------------------------------------------------------------------
(* History helpers *)

RECURSIVE SumFn(_, _)
SumFn(f, S) ==
    IF S = {} THEN 0
    ELSE LET x == CHOOSE y \in S : TRUE IN f[x] + SumFn(f, S \ {x})

\* sum of f[x] over the inputs fed so far, counted with multiplicity
FedSum(f) == SumFn([x \in BagToSet(fed) |-> CopiesIn(x, fed) * f[x]], BagToSet(fed))

\* a single accumulator that receives every input of bag B, one after the other
RECURSIVE Serial(_, _)
Serial(c, B) ==
    IF BagToSet(B) = {} THEN create_accumulator(c)
    ELSE LET x == CHOOSE y \in BagToSet(B) : TRUE
         IN  add_input(c, Serial(c, B (-) SetToBag({x})), x).acc

\* the live accumulators listed in order p and merged by one call
MergedIn(p) ==
    merge_accumulators(combiner, [k \in 1..Len(accs) |-> accs[p[k]]]).acc

\* 1-indexed position of the first positively labeled example of a query, 0 if none
FirstPositive(g) ==
    LET P == {i \in 1..Len(g) : g[i].has_label /\ g[i].label > 0}
    IN  IF P = {} THEN 0 ELSE CHOOSE i \in P : \A j \in P : i <= j

\* the weight of a query: the weight its examples carry (1.0 for an empty query)
QueryWeight(g) == IF g = <<>> THEN 1 ELSE g[1].weight

MismatchedWeights(g) == \E i, j \in 1..Len(g) : g[i].weight # g[j].weight

----------------------------------------------------------------------------
(* Claims *)

\* C1: for _CompilableMetricsCombiner, for every split of the inputs into groups
\* and every batch size, adding each group to its own accumulator, merging the
\* accumulators and calling extract_output gives every metric of the combiner
\* the value that one accumulator fed all the inputs gives.
C1_CompilableMergeEqualsSerial ==
    (combiner = "CompilableMetrics" /\ Len(accs) >= 1) =>
        \A p \in Orders(1..Len(accs)) :
            CM_extract_output(MergedIn(p)) = CM_extract_output(Serial(combiner, fed))

\* the replica values of metric name, in replica order
ReplicaValues(name) ==
    LET metrics == element[1]
        having == {i \in 1..Len(metrics) : name \in DOMAIN metrics[i]}
    IN  [i \in having |-> metrics[i][name]]

NumericReplicas(name) ==
    {i \in DOMAIN ReplicaValues(name) : ~ReplicaValues(name)[i].nan}

\* C8: in the bootstrap merge of a scalar metric with at least one replica
\* value that is not NaN, the NaN replica values are discarded (the sample mean
\* is that of the others), degrees_of_freedom is the number of non-NaN replica
\* values minus one, and unsampled_value is the metric's value in the
\* unsampled run of the slice.
C8_MergedScalar ==
    boot_merged =>
        \A name \in DOMAIN boot_out[1] :
            NumericReplicas(name) # {} =>
                LET v == boot_out[1][name]
                    N == NumericReplicas(name)
                IN  /\ v.degrees_of_freedom = Cardinality(N) - 1
                    /\ v.unsampled_value = unsampled_results[SliceKey][name]
                    /\ ~v.sample_mean.nan
                    /\ v.sample_mean.num * Cardinality(N)
                          = v.sample_mean.den
                              * SumFn([i \in N |-> ReplicaValues(name)[i].num], N)

\* three replicas were merged, one of them NaN for metric "a", two not
C8_Witness ==
    /\ boot_merged
    /\ "a" \in DOMAIN boot_out[1]
    /\ Len(element[1]) = 3
    /\ \E i \in 1..3 : "a" \in DOMAIN element[1][i] /\ element[1][i]["a"].nan
    /\ boot_out[1]["a"].degrees_of_freedom = 1
    /\ boot_out[1]["a"].sample_mean = Div(1, 2)
    /\ boot_out[1]["a"].unsampled_value = Num(1)

\* C9: in the bootstrap merge of a scalar metric whose replica values are all
\* NaN the result has NaN sample mean and standard deviation and
\* degrees_of_freedom = -1, and its unsampled_value is still the value of the
\* unsampled run.
C9_AllNaNKeepsUnsampled ==
    boot_merged =>
        \A name \in DOMAIN boot_out[1] :
            NumericReplicas(name) = {} =>
                LET v == boot_out[1][name]
                IN  /\ v.sample_mean = NaN
                    /\ v.sample_standard_deviation = NaN
                    /\ v.degrees_of_freedom = -1
                    /\ v.unsampled_value = unsampled_results[SliceKey][name]

\* C10: _MergeBootstrap.process raises whenever the key set of one replica's
\* metrics dict differs from the key set of another replica's metrics dict.
C10_ReplicaKeySetsDiffer ==
    (element # <<>> /\
     \E i, j \in 1..Len(element[1]) : DOMAIN element[1][i] # DOMAIN element[1][j]) =>
        boot_err = "ValueError"

\* C2: for _WeightedExampleCountCombiner and _MinLabelPositionCombiner, however
\* the inputs were spread over accumulators and however the accumulators were
\* merged (any order, any nesting), extract_output of the merged accumulator
\* equals extract_output of one accumulator that received all the inputs, in
\* whatever order the inputs arrived.
C2_MergeEqualsSerial ==
    (combiner \in {"WeightedExampleCount", "MinLabelPosition"} /\ err = "") =>
        /\ \A p \in Orders(1..Len(accs)) :
              extract_output(combiner, MergedIn(p))
                  = extract_output(combiner, Serial(combiner, fed))
        /\ output # <<>> =>
              output[1] = extract_output(combiner, Serial(combiner, fed))

\* two accumulators that both hold queries were merged into the only live one
C2_Witness ==
    /\ combiner = "MinLabelPosition"
    /\ last.op = "merge_accumulators" /\ last.n = 2
    /\ Len(accs) = 1
    /\ accs[1].total_weighted_examples = 3
    /\ accs[1].total_min_position = 3

\* two of the dicts fed so far have a key in common (a dict fed twice shares
\* its keys with itself)
KeyCollision ==
    \E d1, d2 \in BagToSet(fed) :
        /\ d1 # d2 \/ CopiesIn(d1, fed) >= 2
        /\ DOMAIN d1 \cap DOMAIN d2 # {}

AllKeys == UNION {DOMAIN d : d \in BagToSet(fed)}

\* C3: _CombineEvaluationDictionariesFn raises ValueError once two dicts with a
\* common key have met in one accumulator, whatever the order of the add_input
\* and merge_accumulators calls, and raises only then; with pairwise disjoint
\* key sets extract_output is the union of the dicts, every key mapped to its
\* original value.
C3_DisjointUnionOrError ==
    combiner = "CombineEvaluationDictionaries" =>
        /\ err # "" => KeyCollision
        /\ (err = "" /\ Len(accs) <= 1) => ~KeyCollision
        /\ (err = "" /\ Len(accs) = 1) =>
              /\ DOMAIN CED_extract_output(accs[1]) = AllKeys
              /\ \A d \in BagToSet(fed) : \A k \in DOMAIN d :
                    CED_extract_output(accs[1])[k] = d[k]
        /\ output # <<>> =>
              /\ DOMAIN output[1] = AllKeys
              /\ \A d \in BagToSet(fed) : \A k \in DOMAIN d : output[1][k] = d[k]

\* the dicts of two evaluators, held by two accumulators, were merged and the
\* union extracted
C3_Witness ==
    /\ combiner = "CombineEvaluationDictionaries"
    /\ output # <<>>
    /\ BagCardinality(fed) = 2
    /\ \A d \in BagToSet(fed) : DOMAIN d # {}
    /\ Cardinality(DOMAIN output[1]) = 3

\* C4: extract_output of _WeightedExampleCountCombiner is the sum of the example
\* weights of all inputs added: an input of weight 0 adds 0, an input without
\* example weight adds 1.0.
C4_CountIsSumOfWeights ==
    (combiner = "WeightedExampleCount" /\ output # <<>>) =>
        output[1] = Num(FedSum([x \in ExampleWeights |->
                                   IF x.kind = "none" THEN 1 ELSE x.v]))

\* C5: extract_output of _MinLabelPositionCombiner is the weighted average of the
\* per-query minimum label positions: the sum over the queries with a positive
\* label of (query weight x position of the first positive label) divided by
\* the sum of those queries' weights.
C5_WeightedAverageOfMinPositions ==
    (combiner = "MinLabelPosition" /\ err = "" /\ output # <<>>) =>
        LET num == FedSum([g \in BagToSet(fed) |->
                              QueryWeight(g) * FirstPositive(g)])
            den == FedSum([g \in BagToSet(fed) |->
                              IF FirstPositive(g) > 0 THEN QueryWeight(g) ELSE 0])
        IN  den > 0 => output[1] = Div(num, den)

\* C6: _MinLabelPositionCombiner.add_input raises ValueError for every query
\* group holding two examples whose example weights differ, wherever in the
\* group they are, and such a group leaves the accumulator as it was.
C6_MismatchedWeightsRaise ==
    (combiner = "MinLabelPosition" /\ last.op = "add_input") =>
        \A g \in BagToSet(fed) :
            (BagCardinality(fed) = 1 /\ MismatchedWeights(g)) =>
                (err = "ValueError" /\ ~last.changed)

C11_NonPositiveSamplesRaise ==
    [][(ci_pc = "start" /\ num_bootstrap_samples # <<>> /\ num_bootstrap_samples[1] <= 0)
         => (ci_err' = "ValueError" /\ ci_pc' = "raised" /\ instantiated' = <<>>)]_vars

\* C12: with num_bootstrap_samples = 1 the call creates no sampled computation
\* and runs no merge: what it returns for the slice is the unsampled
\* computation's metrics dict, as it is.
C12_SingleSampleIsUnsampled ==
    (ci_pc = "done" /\ num_bootstrap_samples = <<1>>) =>
        /\ instantiated = <<Instance(FALSE, <<>>)>>
        /\ element = <<>> /\ ~boot_merged /\ boot_out = <<>>
        /\ output_results = "unsampled"
        /\ SliceOutput = IF SliceKey \in DOMAIN unsampled_results
                         THEN <<unsampled_results[SliceKey]>> ELSE <<>>

C12_Witness ==
    /\ ci_pc = "done" /\ num_bootstrap_samples = <<1>>
    /\ SliceKey \in DOMAIN unsampled_results
    /\ DOMAIN unsampled_results[SliceKey] = MetricNames
    /\ SliceOutput = <<unsampled_results[SliceKey]>>

\* C13: with num_bootstrap_samples = N > 1, once the sampled computations are
\* built there is exactly one unsampled instantiation (sampling off, no seed),
\* made first, and exactly N sampled ones; with a base seed s replica i has
\* seed s + i, so no two replicas have the same seed.
C13_OneUnsampledAndSeededReplicas ==
    (ci_pc = "merge" \/ output_results = "merged") =>
        (num_bootstrap_samples[1] > 1 /\
            /\ instantiated[1] = Instance(FALSE, <<>>)
            /\ Len(instantiated) = 1 + num_bootstrap_samples[1]
            /\ Len(Multicombine) = num_bootstrap_samples[1]
            /\ \A i \in 1..Len(Multicombine) :
                  Multicombine[i].random_seed_for_testing =
                      IF random_seed_for_testing = <<>> THEN <<>>
                      ELSE <<random_seed_for_testing[1] + (i - 1)>>
            /\ random_seed_for_testing # <<>> =>
                  \A i, j \in 1..Len(Multicombine) :
                      i # j => Multicombine[i].random_seed_for_testing
                               # Multicombine[j].random_seed_for_testing)

C13_Witness ==
    /\ ci_pc = "done" /\ output_results = "merged"
    /\ num_bootstrap_samples = <<MaxSamples>>
    /\ random_seed_for_testing = <<MaxSeed>>
    /\ Len(Multicombine) = MaxSamples
    /\ Multicombine[MaxSamples].random_seed_for_testing = <<MaxSeed + MaxSamples - 1>>

\* the call of to_computations, tf_metric_computations, ... has acted
Returned(call) == build_args.call = call /\ Called

\* a spec that asks for macro or weighted macro averaging without binarize settings
MacroWithoutBinarize(spec) == WantsMacro(spec) /\ spec.binarize = <<>>

\* C14: to_computations raises a configuration error (ValueError), returning
\* nothing, for every list of specs one of which sets aggregate.macro_average
\* or aggregate.weighted_macro_average without binarize settings.
C14_MacroWithoutBinarizeRaises ==
    (Returned("to_computations")
       /\ \E i \in 1..Len(build_args.metrics_specs) :
             MacroWithoutBinarize(build_args.metrics_specs[i])) =>
        (build_err = "ValueError" /\ computations = <<>>)

C14_Witness ==
    /\ Returned("to_computations")
    /\ Len(build_args.metrics_specs) = 2
    /\ ~WantsMacro(build_args.metrics_specs[1])
    /\ build_args.metrics_specs[2].binarize = <<>>
    /\ AggregateFlag(build_args.metrics_specs[2], "weighted_macro_average")
    /\ build_err = "ValueError"

\* C15: _create_sub_keys returns None for a spec without binarize settings;
\* with them it returns one sub key per class_ids value, then one per k_list
\* value, then one per top_k_list value, followed by one None entry exactly
\* when aggregate.micro_average is set.
C15_SubKeysOfSpec ==
    Returned("_create_sub_keys") =>
        LET spec == build_args.spec
            returned == computations[1]
        IN  IF spec.binarize = <<>> THEN returned = <<>>
            ELSE LET c == spec.binarize[1].class_ids
                     k == spec.binarize[1].k_list
                     t == spec.binarize[1].top_k_list
                     micro == spec.aggregate # <<>> /\ spec.aggregate[1].micro_average
                     n == Len(c) + Len(k) + Len(t)
                 IN  /\ returned # <<>>
                     /\ Len(returned[1]) = n + (IF micro THEN 1 ELSE 0)
                     /\ \A i \in 1..Len(c) :
                           returned[1][i] = SubKey(<<c[i]>>, <<>>, <<>>)
                     /\ \A i \in 1..Len(k) :
                           returned[1][Len(c) + i] = SubKey(<<>>, <<k[i]>>, <<>>)
                     /\ \A i \in 1..Len(t) :
                           returned[1][Len(c) + Len(k) + i] = SubKey(<<>>, <<>>, <<t[i]>>)
                     /\ micro => returned[1][n + 1] = NoSubKey

C15_Witness ==
    /\ Returned("_create_sub_keys")
    /\ build_args.spec.binarize =
           <<[class_ids |-> <<0, 1>>, k_list |-> <<1>>, top_k_list |-> <<2>>]>>
    /\ AggregateFlag(build_args.spec, "micro_average")
    /\ Len(computations[1][1]) = 5
    /\ computations[1][1][5] = NoSubKey

\* C16: the entry _create_sub_keys adds for micro averaging never aliases the
\* default sub key of a spec without binarization: no group of TF specs that
\* to_computations builds (one sub key, one model) holds both a binarized
\* micro-averaged spec and a spec without binarize settings.
C16_MicroEntryNeverAliasesDefault ==
    Returned("to_computations") =>
        LET tf_specs == tf_metrics_specs(build_args.metrics_specs)
            groups == TFGroups(tf_specs)
        IN  \A g \in 1..Len(groups) :
                \A i, j \in {groups[g].indices[n] : n \in 1..Len(groups[g].indices)} :
                    ~ (/\ tf_specs[i].binarize # <<>>
                       /\ AggregateFlag(tf_specs[i], "micro_average")
                       /\ tf_specs[j].binarize = <<>>)

\* the confusion matrices computations among the returned computations
MatricesComputations ==
    SelectSeq(computations[1], LAMBDA c : c.kind = "matrices")

HasSparseMetric ==
    \E o \in 1..Len(build_args.metrics) :
        \E i \in 1..Len(build_args.metrics[o][2]) : IsSparse(build_args.metrics[o][2][i])

\* C18: tf_metric_computations raises ValueError and returns nothing whenever
\* class_weights is not None (an empty dict included) and one of the metrics
\* is a sparse-label metric.
C18_SparseWithClassWeightsRaises ==
    (Returned("tf_metric_computations") /\ build_args.class_weights # <<>>
       /\ HasSparseMetric) =>
        (build_err = "ValueError" /\ computations = <<>>)

C18_Witness ==
    /\ Returned("tf_metric_computations")
    /\ build_args.class_weights = <<{}>>
    /\ HasSparseMetric
    /\ build_err = "ValueError"

\* C19: _wrap_confusion_matrix_metric raises a configuration error
\* (ValueError), returning nothing, whenever the metric is an AUC with
\* label_weights of its own and class weights are passed down from the
\* aggregation options as well.
C19_LabelWeightsAndClassWeightsRaise ==
    (Returned("_wrap_confusion_matrix_metric")
       /\ build_args.metric.cls = "AUC"
       /\ TruthyList(build_args.metric.label_weights)
       /\ TruthyDict(build_args.class_weights)) =>
        (build_err = "ValueError" /\ computations = <<>>)

C19_Witness ==
    /\ Returned("_wrap_confusion_matrix_metric")
    /\ build_args.metric = AUCLabelWeights
    /\ build_args.class_weights = <<{<<0, 1>>}>>
    /\ build_err = "ValueError"

\* the one input handed to add_input so far
TheInput == CHOOSE x \in BagToSet(fed) : TRUE

\* C20: _WeightedExampleCountCombiner.add_input raises ValueError and leaves
\* the count as it was whenever the example weight is still a dict after the
\* selection by the key's model name and output name.
C20_DictWeightRaises ==
    (combiner = "WeightedExampleCount" /\ last.op = "add_input"
       /\ WEC_example_weight(TheInput).kind = "dict") =>
        (err = "ValueError" /\ last.raised /\ ~last.changed)

C20_Witness ==
    /\ combiner = "WeightedExampleCount" /\ last.op = "add_input"
    /\ config.model_name = "model" /\ config.output_name = ""
    /\ TheInput.kind = "dict"
    /\ "model" \in DOMAIN TheInput.items
    /\ TheInput.items["model"].kind = "dict"
    /\ err = "ValueError"
    /\ accs = <<MaxWeight>>

\* how the whole-batch attempt of the call under way ended: "" when it returned
WholeAttempt == batch_reducible_process(proc_args.elements, proc_args.whole).err

\* the elements of the batch under way that fail when processed alone
FailingAlone == {i \in 1..Len(proc_args.elements) : proc_args.elements[i].alone # "ok"}

\* the first n elements of the batch under way, each as a batch of its own
AloneUpTo(n) == [i \in 1..n |-> <<proc_args.elements[i]>>]

\* C21: when the whole batch raises ValueError or InvalidArgumentError, every
\* element is reprocessed alone in input order and the outputs come back
\* concatenated in that order, nothing of the whole-batch attempt kept; an
\* error of an element processed alone, or any other exception type of the
\* whole batch, propagates without further retry.
C21_SerialFallback ==
    Processed =>
        /\ (WholeAttempt \in {"ValueError", "InvalidArgumentError"} /\ FailingAlone = {}) =>
              /\ proc_err = ""
              /\ proc_result = <<[i \in 1..Len(proc_args.elements) |->
                                    [element |-> i, batch_size |-> 1]]>>
              /\ proc_calls = <<proc_args.elements>> \o AloneUpTo(Len(proc_args.elements))
        /\ (WholeAttempt \in {"ValueError", "InvalidArgumentError"} /\ FailingAlone # {}) =>
              LET k == CHOOSE i \in FailingAlone : \A j \in FailingAlone : i <= j
              IN  /\ proc_err = proc_args.elements[k].alone
                  /\ proc_result = <<>>
                  /\ proc_calls = <<proc_args.elements>> \o AloneUpTo(k)
        /\ (WholeAttempt \notin {"", "ValueError", "InvalidArgumentError"}) =>
              /\ proc_err = WholeAttempt
              /\ proc_result = <<>>
              /\ proc_calls = <<proc_args.elements>>

C21_Witness ==
    /\ Processed
    /\ Len(proc_args.elements) = MaxElements
    /\ WholeAttempt = "InvalidArgumentError"
    /\ proc_err = ""
    /\ Len(proc_result[1]) = MaxElements
    /\ Len(proc_calls) = MaxElements + 1

ValueFrom(j, name) ==
    LET features == input_features(rebatch_args.batch_of_extracts[j])
        specs == IF rebatch_args.input_specs = <<>> THEN <<>>
                 ELSE rebatch_args.input_specs[1]
    IN  IF features.kind # "dict" THEN <<features>>
        ELSE IF lookup(features, name) = <<>> THEN <<>>
        ELSE IF name \in DOMAIN specs /\ Len(specs[name].shape) = 1
        THEN <<lookup(features, name)[1][1]>>
        ELSE lookup(features, name)

\* C23: rebatch_by_input_names returns batch-aligned features: for every
\* input name present in the result, its list holds exactly one value per
\* extract of the batch, in batch order (position j comes from extract j).
C23_BatchAligned ==
    rebatch_inputs # <<>> =>
        \A name \in DOMAIN rebatch_inputs[1] :
            /\ Len(rebatch_inputs[1][name]) = Len(rebatch_args.batch_of_extracts)
            /\ \A j \in 1..Len(rebatch_args.batch_of_extracts) :
                  <<rebatch_inputs[1][name][j]>> = ValueFrom(j, name)

\* the elementwise sum of the weights that the accumulators at the positions
\* of S up to k hold in slot m of output o once their buffers are flushed;
\* <<>> when none of them holds any
RECURSIVE SlotSum(_, _, _, _)
SlotSum(S, k, o, m) ==
    IF k = 0 THEN <<>>
    ELSE LET rest == SlotSum(S, k - 1, o, m)
             weights == CM_process_batch(accs[k]).weights[o][m]
         IN  IF k \notin S \/ weights = <<>> THEN rest
             ELSE IF rest = <<>> THEN weights
             ELSE <<rest[1] + weights[1], rest[2] + weights[2]>>

\* C24: _CompilableMetricsCombiner.merge_accumulators flushes each input
\* accumulator's buffer and returns an accumulator with an empty buffer that
\* holds, for every output and every metric slot (metrics from metric
\* configs and from loss configs alike), the elementwise sum of the input
\* accumulators' weights for that slot.
C24_MergeSumsEverySlot ==
    [][(combiner = "CompilableMetrics" /\ last'.op = "merge_accumulators") =>
         \E S \in SUBSET (1..Len(accs)) :
            /\ Cardinality(S) = last'.n
            /\ Len(accs') = Len(Remaining(S)) + 1
            /\ \A k \in 1..Len(Remaining(S)) : accs'[k] = Remaining(S)[k][2]
            /\ \A o \in 1..NumOutputs :
                  /\ accs'[Len(accs')].inputs[o] = <<>>
                  /\ \A m \in 1..NumSlots :
                        accs'[Len(accs')].weights[o][m] = SlotSum(S, Len(accs), o, m)]_vars

\* the computation declares the key
HasKey(computation, key) ==
    /\ "keys" \in DOMAIN computation
    /\ \E k \in 1..Len(computation.keys) : computation.keys[k] = key

\* C25: in the list returned for a confusion-matrix-based metric (by
\* _wrap_confusion_matrix_metric and by _confusion_matrix_plot) the metric
\* itself appears only as a derived computation placed last, the matrices key
\* it reads is produced by a computation placed earlier in the same list, and
\* no combiner over raw inputs is created for the metric itself.
C25_DerivedLastAfterItsMatrices ==
    ((Returned("_wrap_confusion_matrix_metric") \/ Returned("_confusion_matrix_plot"))
       /\ build_err = "") =>
        LET c == computations[1]
            n == Len(c)
        IN  /\ c[n].kind = "derived"
            /\ Len(c[n].keys) = 1
            /\ c[n].keys[1].name = (IF build_args.call = "_confusion_matrix_plot"
                                   THEN build_args.name ELSE build_args.metric.name)
            /\ \A i \in 1..(n - 1) : ~HasKey(c[i], c[n].keys[1])
            /\ \E i \in 1..(n - 1) : HasKey(c[i], c[n].matrices_key)
            /\ \A i \in 1..n : c[i].kind \in {"histogram", "matrices", "derived"}
            /\ \A i \in 1..n : c[i].kind = "histogram" => "keys" \notin DOMAIN c[i]

C25_Witness ==
    /\ Returned("_confusion_matrix_plot")
    /\ build_err = ""
    /\ build_args.num_thresholds = MaxPlotThresholds
    /\ Len(computations[1]) = 3
    /\ computations[1][3].keys =
           <<PlotKey(CONFUSION_MATRIX_PLOT_NAME, "candidate", "", NoSubKey)>>
    /\ HasKey(computations[1][2], computations[1][3].matrices_key)

\* the value is a types.ValueWithTDistribution
IsValueWithTDistribution(v) == "unsampled_value" \in DOMAIN v

\* C26: with num_bootstrap_samples > 1, every metric value _MergeBootstrap
\* emits for a slice is a ValueWithTDistribution whose unsampled_value is the
\* value of the unsampled run, however many (>= 1) replica result dicts are
\* grouped under the slice key.
C26_EveryValueHasTDistribution ==
    (output_results = "merged" /\ ci_pc = "done" /\ boot_out # <<>>) =>
        \A name \in DOMAIN boot_out[1] :
            /\ IsValueWithTDistribution(boot_out[1][name])
            /\ SliceKey \in DOMAIN unsampled_results
            /\ name \in DOMAIN unsampled_results[SliceKey]
            /\ boot_out[1][name].unsampled_value = unsampled_results[SliceKey][name]

\* the keys a computation declares, as a set
DeclaredKeys(computation) == {computation.keys[k] : k \in 1..Len(computation.keys)}

\* C27: for every model_name (empty or not), the set of keys of the dict
\* _CompilableMetricsCombiner.extract_output returns equals the set of
\* MetricKeys declared on the MetricComputation that tf_metric_computations
\* created for that combiner.
C27_ExtractedKeysAreDeclaredKeys ==
    (Returned("tf_metric_computations") /\ build_err = "") =>
        \A i \in 1..Len(computations[1]) :
            computations[1][i].kind = "compilable" =>
                extract_output_keys(computations[1][i]) = DeclaredKeys(computations[1][i])

\* C28: the sub-key in each MetricKey that _metric_keys_and_configs returns
\* is determined by the sub_key argument and the metric's own class_id /
\* top_k alone, whichever metrics precede it in the list or in other
\* outputs; the call raises only for a metric that disagrees with the
\* sub_key argument itself.
C28_SubKeyOfEachMetricAlone ==
    Returned("_metric_keys_and_configs") =>
        LET pairs == MetricPairs(build_args.metrics)
            own(k) == verify_and_update_sub_key(build_args.model_name, pairs[k][1],
                                                build_args.sub_key, pairs[k][2])
        IN  IF build_err = ""
            THEN /\ Len(computations[1].keys) = Len(pairs)
                 /\ \A k \in 1..Len(pairs) :
                       computations[1].keys[k].sub_key = own(k).sub_key
            ELSE \E k \in 1..Len(pairs) : own(k).err # ""

\* C29: to_computations applies to the TF metrics of a spec the class
\* weights of that spec's own aggregate settings (none when the spec has no
\* aggregate settings), also when several TF metric specs fall into the same
\* (sub-key, model name) group.
C29_ClassWeightsOfOwnSpec ==
    (Returned("to_computations") /\ build_err = "") =>
        LET tf_specs == tf_metrics_specs(build_args.metrics_specs)
            groups == TFGroups(tf_specs)
        IN  \A g \in 1..Len(groups) : \A n \in 1..Len(groups[g].indices) :
                GroupClassWeights(tf_specs, groups[g])
                    = SpecClassWeights(tf_specs[groups[g].indices[n]])

\* the serialized metric lists of the caller of specs_from_metrics
SerializedCallerMetrics ==
    LET serialized(l) == [i \in 1..Len(l) |-> serialize_tf_metric(l[i])]
    IN  IF build_args.metrics.kind = "list" THEN {serialized(build_args.metrics.items)}
        ELSE {serialized(build_args.metrics.items[i][2]) :
                 i \in 1..Len(build_args.metrics.items)}

\* C30: specs_from_metrics sets the query_key passed by the caller on every
\* returned metrics spec that carries the caller's metrics, both when metrics
\* is a list and when it is a dict keyed by output name.
C30_QueryKeyOnEverySpec ==
    (Returned("specs_from_metrics") /\ build_err = "") =>
        /\ \E i \in 1..Len(computations[1]) :
               computations[1][i].metrics \in SerializedCallerMetrics
        /\ \A i \in 1..Len(computations[1]) :
               computations[1][i].metrics \in SerializedCallerMetrics =>
                   computations[1][i].query_key = build_args.query_key

====
